---- MODULE Spec2Model ----
(***************************************************************************)
(* Staff lookup application: device-bound authentication against the       *)
(* remote users table, the working-hours gate of the App shell, the        *)
(* cached customer lookup and the chunked bulk upsert.                     *)
(*                                                                         *)
(* Sources: src/services/supabaseClient.ts, src/components/LoginScreen.tsx *)
(* (which also carries utils/time and App), src/components/MainScreen.tsx. *)
(***************************************************************************)
EXTENDS Integers, Sequences, FiniteSets, TLC

(***************************************************************************)
(* Bounds of the model                                                     *)
(***************************************************************************)
\* number of row slots of the remote users table
MaxUserRows == 2

(***************************************************************************)
(* Input domains                                                           *)
(***************************************************************************)
Usernames == {"u1", "u2"}
Passwords == {"p1", "p2"}
\* the two browsers that run the login screen
Clients == {"c1", "c2"}
\* SQL NULL of a nullable text column (no string the model draws equals it)
Null == "NULL"
\* the sentinel of an unrestricted account
ANY_DEVICE == "ANY_DEVICE"

NoRow == [none |-> TRUE]
NoCall == [none |-> TRUE]
NoBind == [none |-> TRUE]

VARIABLES
  users,       \* remote table users: row slot -> row or NoRow
  authPc,      \* per client: position inside authenticateUser
  authCall,    \* per client: arguments of the running / last authenticateUser
  authResult,  \* per client: how the last authenticateUser settled
  firstBind,   \* history: the first-use binding last written, until an admin edit
  now,                \* the wall clock (local time) that new Date() reads
  isWorkingTime,      \* App state: result of the last gate evaluation
  appError,           \* App state: the configuration error found at mount
  isAuthenticated,    \* App state
  isAdmin,            \* App state
  currentUser,        \* App state
  isUnrestrictedUser, \* App state
  legalAccepted,      \* App state
  customers,     \* remote table customers: installation_number -> row
  cache,         \* localStorage entries qs_cache_v1_<key>: key -> {data, timestamp}
  dateNow,       \* Date.now(), in milliseconds
  findPc,        \* position inside findCustomerByInstallationNumber
  findArg,       \* its installationNumber argument
  findResult,    \* how the last lookup settled
  bulkPc,        \* position inside bulkUpsertCustomers
  dbRows,        \* bulkUpsertCustomers: the rows to send
  bulkI,         \* bulkUpsertCustomers: loop index i
  totalSuccess,  \* bulkUpsertCustomers: totalSuccess
  totalErrors,   \* bulkUpsertCustomers: totalErrors
  lastError,     \* bulkUpsertCustomers: lastError
  bulkResult,    \* the object the last bulkUpsertCustomers returned
  progressLog,   \* the onProgress reports of the running / last call
  upsertCalls,   \* history: upsert requests sent by the running / last call
  search_logs,   \* the remote search_logs table, in insertion order
  dbTime,        \* the database clock, in seconds
  statsResult,   \* what the last getUserActivityStats returned
  adminPc,       \* per admin session: where its addCredential stands
  adminArg,      \* per admin session: the Credential of its last addCredential
  adminResult,   \* per admin session: how its last addCredential ended
  csvContent,    \* the text the last exportCustomersAsCSV returned
  recentSearches,  \* MainScreen: the recentSearches state
  recentsStorage,  \* localStorage['recent_searches'], parsed
  loading,         \* MainScreen: the loading state
  pendingSearches, \* performSearch calls awaiting the remote query, each with
                   \* its term and the recentSearches of the render it closed over
  foundCustomer,   \* MainScreen: the customer shown
  searchError,     \* MainScreen: the error shown
  logInFlight      \* logSearchQuery calls whose insert has not answered yet

authVars == <<users, authPc, authCall, authResult, firstBind>>
sessionVars == <<isAuthenticated, isAdmin, currentUser, isUnrestrictedUser, legalAccepted>>
appVars == <<now, isWorkingTime, appError, sessionVars>>

lookupVars == <<cache, dateNow, findPc, findArg, findResult>>
bulkVars == <<bulkPc, dbRows, bulkI, totalSuccess, totalErrors, lastError,
              bulkResult, progressLog, upsertCalls>>
storeVars == <<customers, lookupVars, bulkVars>>

logVars == <<search_logs, dbTime, statsResult>>
adminVars == <<adminPc, adminArg, adminResult>>
searchVars == <<recentSearches, recentsStorage, loading, pendingSearches, foundCustomer,
                searchError, logInFlight>>
mainVars == <<logVars, adminVars, csvContent, searchVars>>

vars == <<authVars, appVars, storeVars, mainVars>>

(***************************************************************************)
(* The remote table users                                                  *)
(***************************************************************************)
UserRowIds == 1..MaxUserRows

\* rows selected by .eq('username', username)
RowsOf(table, username) ==
  {i \in DOMAIN table : table[i] # NoRow /\ table[i].username = username}

\* users(username unique): the unique index of the table
UsernameUnique(table) ==
  \A i, j \in DOMAIN table :
    (table[i] # NoRow /\ table[j] # NoRow /\ table[i].username = table[j].username)
      => i = j

\* .single(): the one selected row, or no data (PGRST116) when the selection
\* holds no row or more than one
Single(table, username) ==
  IF Cardinality(RowsOf(table, username)) = 1
    THEN table[CHOOSE i \in RowsOf(table, username) : TRUE]
    ELSE NoRow

\* JavaScript truthiness of a nullable string
Truthy(s) == s # Null /\ s # ""

\* a concrete device value: set, and not the sentinel
Concrete(dev) == Truthy(dev) /\ dev # ANY_DEVICE

(***************************************************************************)
(* authenticateUser                                                        *)
(***************************************************************************)
\* authenticateUser without the device-lock check
AuthOutcome_NoDeviceLock(data, password, deviceId) ==
  IF data = NoRow THEN "InvalidCredentials"
  ELSE IF data.password # password THEN "InvalidCredentials"
  ELSE IF data.allowed_device_id = ANY_DEVICE THEN "unrestricted"
  ELSE IF ~Truthy(data.allowed_device_id) /\ Truthy(deviceId) THEN "bind"
  ELSE "restricted"

\* authenticateUser with the device-lock check ahead of the sentinel check
AuthOutcome_LockBeforeSentinel(data, password, deviceId) ==
  IF data = NoRow THEN "InvalidCredentials"
  ELSE IF data.password # password THEN "InvalidCredentials"
  ELSE IF Truthy(data.allowed_device_id) /\ data.allowed_device_id # deviceId
    THEN "DeviceNotAuthorized"
  ELSE IF data.allowed_device_id = ANY_DEVICE THEN "unrestricted"
  ELSE IF ~Truthy(data.allowed_device_id) /\ Truthy(deviceId) THEN "bind"
  ELSE "restricted"

\* authenticateUser with the sentinel check ahead of the password check
AuthOutcome_SentinelBeforePassword(data, password, deviceId) ==
  IF data = NoRow THEN "InvalidCredentials"
  ELSE IF data.allowed_device_id = ANY_DEVICE THEN "unrestricted"
  ELSE IF data.password # password THEN "InvalidCredentials"
  ELSE IF Truthy(data.allowed_device_id) /\ data.allowed_device_id # deviceId
    THEN "DeviceNotAuthorized"
  ELSE IF ~Truthy(data.allowed_device_id) /\ Truthy(deviceId) THEN "bind"
  ELSE "restricted"

\* The checks authenticateUser makes on the row it has read, in order.
\* "bind" stands for the branch that writes the device id before returning.
AuthOutcome(data, password, deviceId) ==
  IF data = NoRow THEN "InvalidCredentials"
  ELSE IF data.password # password THEN "InvalidCredentials"
  ELSE IF data.allowed_device_id = ANY_DEVICE THEN "unrestricted"
  ELSE IF Truthy(data.allowed_device_id) /\ data.allowed_device_id # deviceId
    THEN "DeviceNotAuthorized"
  ELSE IF ~Truthy(data.allowed_device_id) /\ Truthy(deviceId) THEN "bind"
  ELSE "restricted"

\* authenticateUser(username, password, deviceId) up to its first-use update:
\* the select on users answers and the checks run on the row it returned.
\* (Sending the request changes nothing, so the call starts where the
\* select is served.)
authenticateUser_select(c, username, password, deviceId, remoteOk) ==
  /\ authPc[c] = "idle"
  /\ authCall' = [authCall EXCEPT ![c] =
       [username |-> username, password |-> password, deviceId |-> deviceId,
        data |-> IF remoteOk THEN Single(users, username) ELSE NoRow]]
  /\ LET outcome == AuthOutcome(Single(users, username), password, deviceId)
     IN IF ~remoteOk
          THEN /\ authPc' = authPc
               /\ authResult' = [authResult EXCEPT ![c] = "RemoteError"]
        ELSE IF outcome = "bind"
          THEN /\ authPc' = [authPc EXCEPT ![c] = "update"]
               /\ authResult' = [authResult EXCEPT ![c] = "pending"]
        ELSE /\ authPc' = authPc
             /\ authResult' = [authResult EXCEPT ![c] = outcome]
  /\ UNCHANGED <<users, firstBind>>

\* the first-use update whose error is thrown to the caller
authenticateUser_update_Throws(c, remoteOk) ==
  /\ authPc[c] = "update"
  /\ IF remoteOk
       THEN /\ users' = [i \in DOMAIN users |->
                            IF i \in RowsOf(users, authCall[c].username)
                              THEN [users[i] EXCEPT
                                      !.allowed_device_id = authCall[c].deviceId]
                              ELSE users[i]]
            /\ firstBind' = [username |-> authCall[c].username,
                             deviceId |-> authCall[c].deviceId]
       ELSE UNCHANGED <<users, firstBind>>
  /\ authPc' = [authPc EXCEPT ![c] = "idle"]
  /\ authResult' = [authResult EXCEPT ![c] =
                      IF remoteOk THEN "restricted" ELSE "RemoteError"]
  /\ UNCHANGED authCall

\* the first-use update written only while the row is still unbound
authenticateUser_update_OnlyIfUnbound(c, remoteOk) ==
  /\ authPc[c] = "update"
  /\ IF remoteOk
       THEN /\ users' = [i \in DOMAIN users |->
                            IF i \in RowsOf(users, authCall[c].username)
                                 /\ ~Truthy(users[i].allowed_device_id)
                              THEN [users[i] EXCEPT
                                      !.allowed_device_id = authCall[c].deviceId]
                              ELSE users[i]]
            /\ firstBind' =
                 IF \E i \in RowsOf(users, authCall[c].username) :
                      ~Truthy(users[i].allowed_device_id)
                   THEN [username |-> authCall[c].username,
                         deviceId |-> authCall[c].deviceId]
                   ELSE firstBind
       ELSE UNCHANGED <<users, firstBind>>
  /\ authPc' = [authPc EXCEPT ![c] = "idle"]
  /\ authResult' = [authResult EXCEPT ![c] = "restricted"]
  /\ UNCHANGED authCall

\* the first-use update answers; its error is only logged, false is returned
authenticateUser_update(c, remoteOk) ==
  /\ authPc[c] = "update"
  /\ IF remoteOk
       THEN /\ users' = [i \in DOMAIN users |->
                            IF i \in RowsOf(users, authCall[c].username)
                              THEN [users[i] EXCEPT
                                      !.allowed_device_id = authCall[c].deviceId]
                              ELSE users[i]]
            /\ firstBind' =
                 IF RowsOf(users, authCall[c].username) # {}
                   THEN [username |-> authCall[c].username,
                         deviceId |-> authCall[c].deviceId]
                   ELSE firstBind
       ELSE UNCHANGED <<users, firstBind>>
  /\ authPc' = [authPc EXCEPT ![c] = "idle"]
  /\ authResult' = [authResult EXCEPT ![c] = "restricted"]
  /\ UNCHANGED authCall

(***************************************************************************)
(* Admin operations on users                                               *)
(***************************************************************************)
\* the row an insert or update writes for a Credential
CredentialRow(credential) ==
  [username |-> credential.username, password |-> credential.password,
   allowed_device_id |-> IF credential.allowedDeviceId = ""
                           THEN Null ELSE credential.allowedDeviceId]

Credentials ==
  [username : Usernames, password : Passwords, allowedDeviceId : {"d1", "d2", ANY_DEVICE, ""}]

\* addCredential: refuses an existing username, else inserts the row
addCredential(credential) ==
  /\ Single(users, credential.username) = NoRow
  /\ \E i \in UserRowIds :
       /\ users[i] = NoRow
       /\ \A j \in UserRowIds : j < i => users[j] # NoRow
       /\ users' = [users EXCEPT ![i] = CredentialRow(credential)]
  /\ UsernameUnique(users')
  /\ firstBind' = NoBind
  /\ UNCHANGED <<authPc, authCall, authResult>>

\* deleteCredential
deleteCredential(username) ==
  /\ RowsOf(users, username) # {}
  /\ users' = [i \in UserRowIds |->
                 IF i \in RowsOf(users, username) THEN NoRow ELSE users[i]]
  /\ firstBind' = NoBind
  /\ UNCHANGED <<authPc, authCall, authResult>>

\* updateCredential: rewrites the rows of originalUsername; the unique index
\* rejects a rename onto another row's username
updateCredential(originalUsername, updatedCredential) ==
  /\ RowsOf(users, originalUsername) # {}
  /\ LET new == [i \in UserRowIds |->
                   IF i \in RowsOf(users, originalUsername)
                     THEN CredentialRow(updatedCredential) ELSE users[i]]
     IN IF UsernameUnique(new)
          THEN /\ users' = new
               /\ firstBind' = NoBind
          ELSE UNCHANGED <<users, firstBind>>
  /\ UNCHANGED <<authPc, authCall, authResult>>

\* the admin consoles open at the same time
Admins == {"a1", "a2"}

\* addCredential without the check that the username is free
addCredential_check_NoExistsTest(a, credential, remoteOk) ==
  /\ adminPc[a] = "idle"
  /\ adminArg' = [adminArg EXCEPT ![a] = credential]
  /\ IF ~remoteOk
       THEN /\ adminResult' = [adminResult EXCEPT ![a] = "RemoteError"]
            /\ UNCHANGED adminPc
       ELSE /\ adminResult' = [adminResult EXCEPT ![a] = "pending"]
            /\ adminPc' = [adminPc EXCEPT ![a] = "insert"]
  /\ UNCHANGED authVars

\* addCredential up to its insert: the select of the username answers
\* (a row, or PGRST116 from .single()), or fails otherwise
addCredential_check(a, credential, remoteOk) ==
  /\ adminPc[a] = "idle"
  /\ adminArg' = [adminArg EXCEPT ![a] = credential]
  /\ IF ~remoteOk
       THEN /\ adminResult' = [adminResult EXCEPT ![a] = "RemoteError"]
            /\ UNCHANGED adminPc
       ELSE IF Single(users, credential.username) # NoRow
         THEN /\ adminResult' = [adminResult EXCEPT ![a] = "AlreadyExists"]
              /\ UNCHANGED adminPc
       ELSE /\ adminResult' = [adminResult EXCEPT ![a] = "pending"]
            /\ adminPc' = [adminPc EXCEPT ![a] = "insert"]
  /\ UNCHANGED authVars

\* addCredential: the insert answers; the unique index rejects a username
\* that has been taken meanwhile
addCredential_insert(a, remoteOk) ==
  /\ adminPc[a] = "insert"
  /\ \E i \in UserRowIds :
       /\ users[i] = NoRow
       /\ \A j \in UserRowIds : j < i => users[j] # NoRow
       /\ LET new == [users EXCEPT ![i] = CredentialRow(adminArg[a])]
          IN IF remoteOk /\ UsernameUnique(new)
               THEN /\ users' = new
                    /\ firstBind' = NoBind
                    /\ adminResult' = [adminResult EXCEPT ![a] = "ok"]
               ELSE /\ UNCHANGED <<users, firstBind>>
                    /\ adminResult' =
                         [adminResult EXCEPT
                            ![a] = IF remoteOk THEN "UniqueViolation" ELSE "RemoteError"]
  /\ adminPc' = [adminPc EXCEPT ![a] = "idle"]
  /\ UNCHANGED <<adminArg, authPc, authCall, authResult>>

(***************************************************************************)
(* The working-hours gate (utils/time)                                     *)
(***************************************************************************)
publicHolidays ==
  {"2024-01-01", "2024-04-09", "2024-04-10", "2024-04-11", "2024-04-12", "2024-04-23", "2024-05-01", "2024-05-19", "2024-06-15", "2024-06-16", "2024-06-17", "2024-06-18", "2024-06-19", "2024-07-15", "2024-08-30", "2024-10-29",
   "2025-01-01", "2025-03-29", "2025-03-30", "2025-03-31", "2025-04-01", "2025-04-23", "2025-05-01", "2025-05-19", "2025-06-05", "2025-06-06", "2025-06-07", "2025-06-08", "2025-06-09", "2025-07-15", "2025-08-30", "2025-10-29",
   "2026-01-01", "2026-03-19", "2026-03-20", "2026-03-21", "2026-03-22", "2026-04-23", "2026-05-01", "2026-05-19", "2026-05-26", "2026-05-27", "2026-05-28", "2026-05-29", "2026-05-30", "2026-07-15", "2026-08-30", "2026-10-29",
   "2027-01-01", "2027-03-08", "2027-03-09", "2027-03-10", "2027-03-11", "2027-04-23", "2027-05-01", "2027-05-15", "2027-05-16", "2027-05-17", "2027-05-18", "2027-05-19", "2027-07-15", "2027-08-30", "2027-10-29",
   "2028-01-01", "2028-02-26", "2028-02-27", "2028-02-28", "2028-04-23", "2028-05-01", "2028-05-05", "2028-05-06", "2028-05-07", "2028-05-08", "2028-05-09", "2028-05-19", "2028-07-15", "2028-08-30", "2028-10-29",
   "2029-01-01", "2029-02-14", "2029-02-15", "2029-02-16", "2029-02-17", "2029-04-23", "2029-04-24", "2029-04-25", "2029-04-26", "2029-04-27", "2029-04-28", "2029-05-01", "2029-05-19", "2029-07-15", "2029-08-30", "2029-10-29",
   "2030-01-01", "2030-02-03", "2030-02-04", "2030-02-05", "2030-02-06", "2030-04-13", "2030-04-14", "2030-04-15", "2030-04-16", "2030-04-17", "2030-04-23", "2030-05-01", "2030-05-19", "2030-07-15", "2030-08-30", "2030-10-29"}

\* the year the calendar sweep covers
GateYear == 2026

Time(y, m, d, h, mi) == [year |-> y, month |-> m, day |-> d, hour |-> h, minute |-> mi]

DaysInMonth(y, m) ==
  IF m = 2 THEN (IF ((y % 4 = 0 /\ y % 100 # 0) \/ y % 400 = 0) THEN 29 ELSE 28)
  ELSE IF m \in {4, 6, 9, 11} THEN 30 ELSE 31

\* Date.getDay(): 0 Sunday .. 6 Saturday, of the Gregorian date
getDay(t) ==
  LET shift == <<0, 3, 2, 5, 0, 3, 5, 1, 4, 6, 2, 4>>
      y == IF t.month < 3 THEN t.year - 1 ELSE t.year
  IN (y + (y \div 4) - (y \div 100) + (y \div 400) + shift[t.month] + t.day) % 7

\* `${year}-${month}-${day}`
formattedDate(t) ==
  ToString(t.year) \o "-"
    \o (IF t.month < 10 THEN "0" \o ToString(t.month) ELSE ToString(t.month))
    \o "-"
    \o (IF t.day < 10 THEN "0" \o ToString(t.day) ELSE ToString(t.day))

\* isWithinWorkingHours with 18:00 itself still open
isWithinWorkingHours_Until1800(t) ==
  IF t.day > 20 THEN FALSE
  ELSE IF getDay(t) = 0 \/ getDay(t) = 6 THEN FALSE
  ELSE IF t.hour < 8 \/ t.hour > 18 THEN FALSE
  ELSE IF formattedDate(t) \in publicHolidays THEN FALSE
  ELSE TRUE

\* isWithinWorkingHours, on the time new Date() returned
isWithinWorkingHours(t) ==
  IF t.day > 20 THEN FALSE
  ELSE IF getDay(t) = 0 \/ getDay(t) = 6 THEN FALSE
  ELSE IF t.hour < 8 \/ t.hour >= 18 THEN FALSE
  ELSE IF formattedDate(t) \in publicHolidays THEN FALSE
  ELSE TRUE

\* the wall clock moves on to t
ClockAdvance(t) ==
  /\ (((t.year * 12 + t.month) * 31 + t.day) * 24 + t.hour) * 60 + t.minute
       > (((now.year * 12 + now.month) * 31 + now.day) * 24 + now.hour) * 60
           + now.minute
  /\ now' = t
  /\ UNCHANGED <<isWorkingTime, appError, sessionVars>>

(***************************************************************************)
(* App: session state, the one-minute interval and renderContent           *)
(***************************************************************************)
\* the browser that runs this App
AppClient == "c1"

\* renderContent without the working-hours branch
renderContent_NoGate ==
  IF appError THEN "ConfigError"
  ELSE IF ~isAuthenticated THEN "Login"
  ELSE IF isAdmin THEN "Admin"
  ELSE IF ~legalAccepted THEN "Legal"
  ELSE "Main"

\* renderContent testing the working-hours gate before the admin and legal
\* branches
renderContent_GateFirst ==
  IF appError THEN "ConfigError"
  ELSE IF ~isAuthenticated THEN "Login"
  ELSE IF ~isWorkingTime THEN "Offline"
  ELSE IF isAdmin THEN "Admin"
  ELSE IF ~legalAccepted THEN "Legal"
  ELSE "Main"

\* renderContent: the screen the App shows
renderContent ==
  IF appError THEN "ConfigError"
  ELSE IF ~isAuthenticated THEN "Login"
  ELSE IF isAdmin THEN "Admin"
  ELSE IF ~legalAccepted THEN "Legal"
  ELSE IF ~isWorkingTime THEN "Offline"
  ELSE "Main"

\* the setInterval callback; the interval is not created on a configuration error
IntervalTick ==
  /\ ~appError
  /\ isWorkingTime' = isWithinWorkingHours(now)
  /\ UNCHANGED <<now, appError, sessionVars>>

\* the state handleLogin sets after a successful authenticateUser
LoggedIn(username, isUnrestricted) ==
  /\ isAuthenticated' = TRUE
  /\ isAdmin' = FALSE
  /\ currentUser' = username
  /\ isUnrestrictedUser' = isUnrestricted
  /\ legalAccepted' = FALSE

\* handleLogin that sends the superuser through authenticateUser as well
handleLogin_AdminChecked(username, password, deviceId, remoteOk) ==
  /\ renderContent = "Login"
  /\ authPc[AppClient] = "idle"
  /\ authenticateUser_select(AppClient, username, password, deviceId, remoteOk)
  /\ IF authResult'[AppClient] \in {"restricted", "unrestricted"}
       THEN LoggedIn(username, authResult'[AppClient] = "unrestricted")
       ELSE UNCHANGED sessionVars
  /\ UNCHANGED <<now, isWorkingTime, appError>>

\* handleLogin up to the first-use update of authenticateUser
handleLogin(username, password, deviceId, remoteOk) ==
  /\ renderContent = "Login"
  /\ authPc[AppClient] = "idle"
  /\ IF username = "admin" /\ password = "admin123"
       THEN /\ isAuthenticated' = TRUE
            /\ isAdmin' = TRUE
            /\ currentUser' = "admin"
            /\ isUnrestrictedUser' = TRUE
            /\ legalAccepted' = TRUE
            /\ UNCHANGED <<authVars, storeVars>>
       ELSE /\ authenticateUser_select(AppClient, username, password, deviceId, remoteOk)
            /\ IF authResult'[AppClient] \in {"restricted", "unrestricted"}
                 THEN LoggedIn(username, authResult'[AppClient] = "unrestricted")
                 ELSE UNCHANGED sessionVars
  /\ UNCHANGED <<now, isWorkingTime, appError>>

\* handleLogin once the first-use update has answered
handleLogin_resume(remoteOk) ==
  /\ authenticateUser_update(AppClient, remoteOk)
  /\ LoggedIn(authCall[AppClient].username, FALSE)
  /\ UNCHANGED <<now, isWorkingTime, appError>>

\* handleLogout leaving the legal acceptance in place
handleLogout_KeepsLegal ==
  /\ renderContent \in {"Admin", "Main"}
  /\ isAuthenticated' = FALSE
  /\ isAdmin' = FALSE
  /\ currentUser' = Null
  /\ isUnrestrictedUser' = FALSE
  /\ UNCHANGED legalAccepted
  /\ UNCHANGED <<now, isWorkingTime, appError, authVars>>

\* handleLogout, from the admin console or the lookup screen
handleLogout ==
  /\ renderContent \in {"Admin", "Main"}
  /\ isAuthenticated' = FALSE
  /\ isAdmin' = FALSE
  /\ currentUser' = Null
  /\ isUnrestrictedUser' = FALSE
  /\ legalAccepted' = FALSE
  /\ UNCHANGED <<now, isWorkingTime, appError, authVars>>

handleAcceptLegal ==
  /\ renderContent = "Legal"
  /\ legalAccepted' = TRUE
  /\ UNCHANGED <<isAuthenticated, isAdmin, currentUser, isUnrestrictedUser>>
  /\ UNCHANGED <<now, isWorkingTime, appError, authVars>>

\* handleDeclineLegal: logs out
handleDeclineLegal ==
  /\ renderContent = "Legal"
  /\ isAuthenticated' = FALSE
  /\ isAdmin' = FALSE
  /\ currentUser' = Null
  /\ isUnrestrictedUser' = FALSE
  /\ legalAccepted' = FALSE
  /\ UNCHANGED <<now, isWorkingTime, appError, authVars>>

\* the App as first rendered, outside the specifications that exercise it
IdleApp ==
  /\ now = Time(GateYear, 1, 5, 8, 0)
  /\ isWorkingTime = isWithinWorkingHours(now)
  /\ appError = FALSE
  /\ isAuthenticated = FALSE
  /\ isAdmin = FALSE
  /\ currentUser = Null
  /\ isUnrestrictedUser = FALSE
  /\ legalAccepted = FALSE

(***************************************************************************)
(* Customer records                                                        *)
(***************************************************************************)
\* JavaScript undefined (where a text is expected), and the values of a
\* nullable number: a number held in thousandths, NaN, or null
Undefined == <<"undefined">>
Num(n) == [num |-> n]
NaN == [nan |-> TRUE]
NullNumber == [null |-> TRUE]
NoEntry == [none |-> TRUE]
NoResult == [none |-> TRUE]

RECURSIVE DigitsValue(_)
\* the number a sequence of decimal digits spells
DigitsValue(ds) ==
  IF ds = <<>> THEN 0
  ELSE DigitsValue(SubSeq(ds, 1, Len(ds) - 1)) * 10
         + (CHOOSE d \in 0..9 : ToString(d) = ds[Len(ds)])

RECURSIVE LeadingDigits(_)
\* the longest prefix of s made of decimal digits
LeadingDigits(s) ==
  IF s = <<>> \/ Head(s) \notin {"0", "1", "2", "3", "4", "5", "6", "7", "8", "9"} THEN <<>>
  ELSE <<Head(s)>> \o LeadingDigits(Tail(s))

RECURSIVE ReplaceFirst(_, _, _)
\* String.replace(from, to) with a string pattern: the first occurrence only
ReplaceFirst(s, from, to) ==
  IF s = <<>> THEN <<>>
  ELSE IF Head(s) = from THEN <<to>> \o Tail(s)
  ELSE <<Head(s)>> \o ReplaceFirst(Tail(s), from, to)

\* parseFloat: the longest numeric prefix (digits, then optionally a point and
\* digits), NaN when there is none
parseFloat(s) ==
  LET ip == LeadingDigits(s)
      rest == SubSeq(s, Len(ip) + 1, Len(s))
      fp == IF rest # <<>> /\ Head(rest) = "." THEN LeadingDigits(Tail(rest)) ELSE <<>>
      fp3 == SubSeq(fp \o <<"0", "0", "0">>, 1, 3)
  IN IF ip = <<>> /\ fp = <<>> THEN NaN
     ELSE Num(DigitsValue(ip) * 1000 + DigitsValue(fp3))

RECURSIVE DigitsOf(_)
\* the decimal digits of a natural number
DigitsOf(n) ==
  IF n < 10 THEN <<ToString(n)>> ELSE DigitsOf(n \div 10) \o <<ToString(n % 10)>>

RECURSIVE StripZeros(_)
StripZeros(ds) ==
  IF ds # <<>> /\ ds[Len(ds)] = "0" THEN StripZeros(SubSeq(ds, 1, Len(ds) - 1)) ELSE ds

\* Number.prototype.toString()
NumberToString(x) ==
  LET n == x.num
      f == n % 1000
      fd == StripZeros(<<ToString(f \div 100), ToString((f \div 10) % 10), ToString(f % 10)>>)
  IN IF fd = <<>> THEN DigitsOf(n \div 1000)
     ELSE DigitsOf(n \div 1000) \o <<".">> \o fd

\* the row bulkUpsertCustomers builds for a Customer
ToDbRow(c) ==
  [installation_number |-> c.installationNumber,
   name |-> c.name, phone |-> c.phone, address |-> c.address,
   latitude |-> IF c.latitude # <<>>
                  THEN (IF parseFloat(ReplaceFirst(c.latitude, ",", ".")) = NaN
                          THEN NullNumber
                          ELSE parseFloat(ReplaceFirst(c.latitude, ",", ".")))
                  ELSE NullNumber,
   longitude |-> IF c.longitude # <<>>
                   THEN (IF parseFloat(ReplaceFirst(c.longitude, ",", ".")) = NaN
                           THEN NullNumber
                           ELSE parseFloat(ReplaceFirst(c.longitude, ",", ".")))
                   ELSE NullNumber]

\* mapSupabaseCustomerToApp
mapSupabaseCustomerToApp(data) ==
  [installationNumber |-> data.installation_number,
   name |-> data.name, phone |-> data.phone, address |-> data.address,
   latitude |-> IF data.latitude = NullNumber THEN Undefined ELSE NumberToString(data.latitude),
   longitude |-> IF data.longitude = NullNumber THEN Undefined ELSE NumberToString(data.longitude)]

\* the two customer objects carry the same data
SameCustomer(a, b) ==
  \A f \in {"installationNumber", "name", "phone", "address", "latitude", "longitude"} :
    (IF f \in DOMAIN a THEN a[f] ELSE Undefined)
      = (IF f \in DOMAIN b THEN b[f] ELSE Undefined)

\* Customers as the import hands them over; record j has installation number 1000+j
KeyOf(j) == ToString(1000 + j)

CustomerA(j) ==
  [installationNumber |-> KeyOf(j), name |-> "Ali Demir", phone |-> "5551",
   address |-> "Izmir", latitude |-> <<"3", "8", ",", "5">>,
   longitude |-> <<"2", "7", ".", "1", "2", "5">>]

CustomerB(j) ==
  [installationNumber |-> KeyOf(j), name |-> "Veli Kaya", phone |-> "5552",
   address |-> "", latitude |-> <<>>, longitude |-> <<>>]

(***************************************************************************)
(* The lookup cache and findCustomerByInstallationNumber                   *)
(***************************************************************************)
CACHE_DURATION_MS == 1000 * 60 * 60 * 24

\* how far past one cache lifetime the clock runs, in milliseconds
MaxOverrun == 2

MAX_RECENT_SEARCHES == 5

\* the installation numbers localStorage may hold an entry for
CacheKeys == {KeyOf(j) : j \in 1..(MAX_RECENT_SEARCHES + 2)}

\* getFromCache returning null
NullCustomer == [null |-> TRUE]

\* getFromCache with the lifetime test off by one (expired at exactly 24h)
getFromCache_ExpiresAtTtl(key) ==
  IF cache[key] = NoEntry THEN NullCustomer
  ELSE IF dateNow - cache[key].timestamp >= CACHE_DURATION_MS THEN NullCustomer
  ELSE cache[key].data

\* getFromCache: the value returned
getFromCache(key) ==
  IF cache[key] = NoEntry THEN NullCustomer
  ELSE IF dateNow - cache[key].timestamp > CACHE_DURATION_MS THEN NullCustomer
  ELSE cache[key].data

\* getFromCache: its effect on localStorage (an expired entry is removed)
CacheAfterGet(key) ==
  IF cache[key] # NoEntry /\ getFromCache(key) = NullCustomer
    THEN [cache EXCEPT ![key] = NoEntry]
    ELSE cache

\* saveToCache: the entry written, unless localStorage refuses it
CacheAfterSave(c, key, data, storageOk) ==
  IF storageOk
    THEN [c EXCEPT ![key] =
            [data |-> [f \in {g \in DOMAIN data :
                                ~(g \in {"latitude", "longitude"}
                                    /\ data[g] = Undefined)} |-> data[f]],
             timestamp |-> dateNow]]
    ELSE c

\* the installation numbers of the rows of the customers table
CustomerKeys(table) == {table[i].installation_number : i \in DOMAIN table}

\* the rows of the table with that installation number
RowsWith(table, installationNumber) ==
  {i \in DOMAIN table : table[i].installation_number = installationNumber}

\* a select without the .eq filter: whatever row the table holds
SelectCustomer_AnyRow(table, installationNumber) ==
  IF table = <<>> THEN NoRow ELSE table[1]

\* .select('*').eq('installation_number', installationNumber).single():
\* the row when exactly one matches, PGRST116 otherwise
SelectCustomer(table, installationNumber) ==
  IF Cardinality(RowsWith(table, installationNumber)) = 1
    THEN table[CHOOSE i \in RowsWith(table, installationNumber) : TRUE]
    ELSE NoRow

\* the cache check answering from the cache only while the cached snapshot
\* still agrees with the customers table
findCustomer_cache_Revalidates(installationNumber) ==
  /\ findPc = "idle"
  /\ findArg' = installationNumber
  /\ LET fresh == /\ getFromCache(installationNumber) # NullCustomer
                  /\ SelectCustomer(customers, installationNumber) # NoRow
                  /\ getFromCache(installationNumber)
                       = cache[installationNumber].data
                  /\ CacheAfterSave(cache, installationNumber,
                                    mapSupabaseCustomerToApp(
                                      SelectCustomer(customers, installationNumber)),
                                    TRUE)[installationNumber].data
                       = cache[installationNumber].data
     IN IF fresh
          THEN /\ findPc' = "idle"
               /\ cache' = cache
               /\ findResult' = [status |-> "ok", remote |-> FALSE,
                                 customer |-> getFromCache(installationNumber)]
          ELSE /\ findPc' = "query"
               /\ cache' = [cache EXCEPT ![installationNumber] = NoEntry]
               /\ findResult' = NoResult
  /\ UNCHANGED <<customers, dateNow>>

\* findCustomerByInstallationNumber up to the remote query: the cache check
findCustomer_cache(installationNumber) ==
  /\ findPc = "idle"
  /\ findArg' = installationNumber
  /\ cache' = CacheAfterGet(installationNumber)
  /\ IF getFromCache(installationNumber) # NullCustomer
       THEN /\ findPc' = "idle"
            /\ findResult' = [status |-> "ok", remote |-> FALSE,
                              customer |-> getFromCache(installationNumber)]
       ELSE /\ findPc' = "query"
            /\ findResult' = NoResult
  /\ UNCHANGED <<customers, dateNow>>

\* the remote query answers (a row or PGRST116), or fails otherwise
findCustomer_query(remoteOk, storageOk) ==
  /\ findPc = "query"
  /\ findPc' = "idle"
  /\ LET data == SelectCustomer(customers, findArg)
     IN IF ~remoteOk
          THEN /\ findResult' = [status |-> "RemoteError", remote |-> TRUE]
               /\ UNCHANGED cache
        ELSE IF data = NoRow
          THEN /\ findResult' = [status |-> "NotFound", remote |-> TRUE]
               /\ UNCHANGED cache
        ELSE /\ findResult' = [status |-> "ok", remote |-> TRUE,
                               customer |-> mapSupabaseCustomerToApp(data)]
             /\ cache' = CacheAfterSave(cache, findArg, mapSupabaseCustomerToApp(data),
                                        storageOk)
  /\ UNCHANGED <<customers, dateNow, findArg>>

\* time passes; the clock is followed up to MaxOverrun milliseconds past the
\* start and past one cache lifetime
TimePasses(ms) ==
  /\ dateNow + ms <= CACHE_DURATION_MS + MaxOverrun
  /\ (dateNow + ms) % CACHE_DURATION_MS <= MaxOverrun
  /\ dateNow' = dateNow + ms
  /\ UNCHANGED <<customers, cache, findPc, findArg, findResult>>

(***************************************************************************)
(* bulkUpsertCustomers                                                     *)
(***************************************************************************)
CHUNK_SIZE == 200

\* the chunk taken one row too long
ChunkAt_OneTooLong(rows, i) ==
  SubSeq(rows, i + 1,
         IF i + CHUNK_SIZE + 1 > Len(rows) THEN Len(rows) ELSE i + CHUNK_SIZE + 1)

\* dbRows.slice(i, i + CHUNK_SIZE)
ChunkAt(rows, i) ==
  SubSeq(rows, i + 1, IF i + CHUNK_SIZE > Len(rows) THEN Len(rows) ELSE i + CHUNK_SIZE)

\* an insert that ignores the conflict target
Upsert_PlainInsert(table, chunk) == table \o chunk

\* upsert(chunk, {onConflict: 'installation_number'}): insert, or update the
\* row that has the same installation_number
\* (applied row by row: a row whose number is in the table replaces that row,
\* any other row is added at the end)
Upsert(table, chunk) ==
  LET KeyAt(j) == chunk[j].installation_number
      chunkKeys == {KeyAt(j) : j \in DOMAIN chunk}
      tableKeys == CustomerKeys(table)
      Last(k) == chunk[CHOOSE j \in DOMAIN chunk :
                         /\ KeyAt(j) = k
                         /\ \A l \in (j + 1)..Len(chunk) : KeyAt(l) # k]
      IsFresh(j) == /\ KeyAt(j) \notin tableKeys
                    /\ \A l \in 1..(j - 1) : KeyAt(l) # KeyAt(j)
      fresh == SelectSeq([j \in DOMAIN chunk |-> j], IsFresh)
  IN [i \in DOMAIN table |->
        IF table[i].installation_number \in chunkKeys
          THEN Last(table[i].installation_number) ELSE table[i]]
     \o [n \in DOMAIN fresh |-> Last(KeyAt(fresh[n]))]

\* errors an upsert can come back with
ChunkErrors ==
  {[code |-> "42501", message |-> "permission denied for table customers"],
   [code |-> "", message |-> "new row violates row-level security policy"],
   [code |-> "57014", message |-> "canceling statement due to statement timeout"]}

\* the permission test looking at the error code only
IsPermissionError_CodeOnly(error) == error.code = "42501"

\* error.code === '42501' || error.message.includes('row-level security')
IsPermissionError(error) ==
  error.code = "42501" \/ error.message = "new row violates row-level security policy"

\* the report counting only the chunks before the one just attempted
ProgressReport_StartIndex(i, chunk, n, errors) ==
  [processed |-> i, total |-> n, errorCount |-> errors]

\* the onProgress report after the chunk at index i
ProgressReport(i, chunk, n, errors) ==
  [processed |-> IF i + Len(chunk) > n THEN n ELSE i + Len(chunk),
   total |-> n, errorCount |-> errors]

\* bulkUpsertCustomers(customers, onProgress) up to the first upsert
bulkUpsertCustomers_start(input) ==
  /\ bulkPc = "idle"
  /\ dbRows' = [j \in DOMAIN input |-> ToDbRow(input[j])]
  /\ bulkI' = 0
  /\ totalSuccess' = 0
  /\ totalErrors' = 0
  /\ lastError' = Null
  /\ progressLog' = <<>>
  /\ upsertCalls' = 0
  /\ IF Len(input) = 0
       THEN /\ bulkResult' = [success |-> 0, errorCount |-> 0, error |-> Null]
            /\ bulkPc' = "idle"
       ELSE /\ bulkResult' = NoResult
            /\ bulkPc' = "upsert"
  /\ UNCHANGED customers

\* the upsert of the chunk at index i answers without an error
bulkUpsertCustomers_chunkOk ==
  /\ bulkPc = "upsert"
  /\ LET chunk == ChunkAt(dbRows, bulkI)
     IN /\ customers' = Upsert(customers, chunk)
        /\ totalSuccess' = totalSuccess + Len(chunk)
        /\ progressLog' = Append(progressLog,
             ProgressReport(bulkI, chunk, Len(dbRows), totalErrors))
  /\ upsertCalls' = upsertCalls + 1
  /\ bulkPc' = "sleep"
  /\ UNCHANGED <<dbRows, bulkI, totalErrors, lastError, bulkResult>>

\* the error branch returning on every error, permission-class or not
bulkUpsertCustomers_chunkError_AlwaysAborts(error) ==
  /\ bulkPc = "upsert"
  /\ upsertCalls' = upsertCalls + 1
  /\ totalErrors' = totalErrors + Len(ChunkAt(dbRows, bulkI))
  /\ lastError' = error.message
  /\ bulkResult' = [success |-> totalSuccess,
                    errorCount |-> Len(dbRows) - totalSuccess,
                    error |-> IF IsPermissionError(error)
                                THEN "YETKI HATASI" ELSE error.message]
  /\ bulkPc' = "idle"
  /\ UNCHANGED <<customers, dbRows, bulkI, totalSuccess, progressLog>>

\* the upsert of the chunk at index i answers with an error
bulkUpsertCustomers_chunkError(error) ==
  /\ bulkPc = "upsert"
  /\ upsertCalls' = upsertCalls + 1
  /\ LET chunk == ChunkAt(dbRows, bulkI)
     IN /\ totalErrors' = totalErrors + Len(chunk)
        /\ lastError' = error.message
        /\ IF IsPermissionError(error)
             THEN /\ bulkResult' =
                       [success |-> totalSuccess,
                        errorCount |-> Len(dbRows) - totalSuccess,
                        error |-> "YETKI HATASI"]
                  /\ bulkPc' = "idle"
                  /\ UNCHANGED progressLog
             ELSE /\ progressLog' = Append(progressLog,
                       ProgressReport(bulkI, chunk, Len(dbRows), totalErrors'))
                  /\ bulkPc' = "sleep"
                  /\ UNCHANGED bulkResult
  /\ UNCHANGED <<customers, dbRows, bulkI, totalSuccess>>

\* the upsert throwing with no try/catch around it: the call ends raised
bulkUpsertCustomers_chunkThrows_Uncaught(applied) ==
  /\ bulkPc = "upsert"
  /\ upsertCalls' = upsertCalls + 1
  /\ customers' = IF applied THEN Upsert(customers, ChunkAt(dbRows, bulkI)) ELSE customers
  /\ bulkPc' = "raised"
  /\ UNCHANGED <<dbRows, bulkI, totalSuccess, totalErrors, lastError, bulkResult,
                 progressLog>>

\* the upsert of the chunk at index i throws (the request may or may not
\* have reached the store)
bulkUpsertCustomers_chunkThrows(applied) ==
  /\ bulkPc = "upsert"
  /\ upsertCalls' = upsertCalls + 1
  /\ LET chunk == ChunkAt(dbRows, bulkI)
     IN /\ customers' = IF applied THEN Upsert(customers, chunk) ELSE customers
        /\ totalErrors' = totalErrors + Len(chunk)
        /\ lastError' = "Failed to fetch"
        /\ progressLog' = Append(progressLog,
             ProgressReport(bulkI, chunk, Len(dbRows), totalErrors'))
  /\ bulkPc' = "sleep"
  /\ UNCHANGED <<dbRows, bulkI, totalSuccess, bulkResult>>

\* the loop stepping over a chunk
bulkUpsertCustomers_next_SkipsChunk ==
  /\ bulkPc = "sleep"
  /\ bulkI' = bulkI + 2 * CHUNK_SIZE
  /\ IF bulkI' < Len(dbRows)
       THEN /\ bulkPc' = "upsert"
            /\ UNCHANGED bulkResult
       ELSE /\ bulkPc' = "idle"
            /\ bulkResult' = [success |-> totalSuccess, errorCount |-> totalErrors,
                              error |-> lastError]
  /\ UNCHANGED <<customers, dbRows, totalSuccess, totalErrors, lastError,
                 progressLog, upsertCalls>>

\* the 100 ms pause ends: the loop steps to the next chunk or returns
bulkUpsertCustomers_next ==
  /\ bulkPc = "sleep"
  /\ bulkI' = bulkI + CHUNK_SIZE
  /\ IF bulkI' < Len(dbRows)
       THEN /\ bulkPc' = "upsert"
            /\ UNCHANGED bulkResult
       ELSE /\ bulkPc' = "idle"
            /\ bulkResult' = [success |-> totalSuccess, errorCount |-> totalErrors,
                              error |-> lastError]
  /\ UNCHANGED <<customers, dbRows, totalSuccess, totalErrors, lastError,
                 progressLog, upsertCalls>>

(***************************************************************************)
(* CSV export (exportCustomersAsCSV) and import (processCSV)               *)
(* Texts are sequences of one-character strings.                           *)
(***************************************************************************)
Quote == "\""

\* String.prototype.trim
Trim(s) ==
  LET nb == {i \in DOMAIN s : s[i] \notin {" ", "\t", "\r", "\n"}}
  IN IF nb = {} THEN <<>>
     ELSE SubSeq(s, CHOOSE i \in nb : \A j \in nb : i <= j,
                    CHOOSE i \in nb : \A j \in nb : j <= i)

\* replace(/^"|"$/g, ''): one quote off the start and one off the end
StripQuotes(s) ==
  LET from == IF Len(s) >= 1 /\ s[1] = Quote THEN 2 ELSE 1
      to == IF Len(s) >= 2 /\ s[Len(s)] = Quote THEN Len(s) - 1 ELSE Len(s)
  IN SubSeq(s, from, to)

RECURSIVE Split(_, _)
\* String.prototype.split(sep) for a one-character separator
Split(s, sep) ==
  IF \A i \in DOMAIN s : s[i] # sep THEN <<s>>
  ELSE LET k == CHOOSE i \in DOMAIN s : s[i] = sep /\ \A j \in 1..(i - 1) : s[j] # sep
       IN <<SubSeq(s, 1, k - 1)>> \o Split(SubSeq(s, k + 1, Len(s)), sep)

\* split(/\r?\n/)
SplitLines(s) ==
  LET raw == Split(s, "\n")
  IN [i \in DOMAIN raw |->
        IF i < Len(raw) /\ raw[i] # <<>> /\ raw[i][Len(raw[i])] = "\r"
          THEN SubSeq(raw[i], 1, Len(raw[i]) - 1) ELSE raw[i]]

RECURSIVE Join(_, _)
\* Array.prototype.join(sep)
Join(parts, sep) ==
  IF parts = <<>> THEN <<>>
  ELSE IF Len(parts) = 1 THEN parts[1]
  ELSE parts[1] \o <<sep>> \o Join(Tail(parts), sep)

\* toLowerCase, on the letters the texts use
ToLowerCase(s) ==
  [i \in DOMAIN s |->
     CASE s[i] = "T" -> "t" [] s[i] = "A" -> "a" [] s[i] = "S" -> "s"
       [] s[i] = "N" -> "n" [] s[i] = "E" -> "e" [] s[i] = "B" -> "b"
       [] s[i] = "I" -> "i" [] OTHER -> s[i]]

\* String.prototype.includes
Includes(s, pat) ==
  \E i \in 1..(Len(s) - Len(pat) + 1) : SubSeq(s, i, i + Len(pat) - 1) = pat

\* the header line exportCustomersAsCSV writes
CsvHeader == <<"T", "e", "s", "i", "s", "a", "t", " ", "N", "o", ";", " ", "A", "d", " ", "S", "o", "y", "a", "d", ";", " ", "T", "e", "l", "e", "f", "o", "n", ";", " ", "A", "d", "r", "e", "s", ";", " ", "E", "n", "l", "e", "m", ";", " ", "B", "o", "y", "l", "a", "m">>

\* x || '' for a nullable column
OrEmpty(x) == IF x = Null THEN <<>> ELSE x

\* the line exportCustomersAsCSV writes for a row
ExportLine(row) ==
  Join(<<row.installation_number,
         <<Quote>> \o OrEmpty(row.name) \o <<Quote>>,
         OrEmpty(row.phone),
         <<Quote>> \o OrEmpty(row.address) \o <<Quote>>,
         (IF row.latitude = NullNumber \/ row.latitude = Num(0)
            THEN <<>> ELSE NumberToString(row.latitude)),
         (IF row.longitude = NullNumber \/ row.longitude = Num(0)
            THEN <<>> ELSE NumberToString(row.longitude))>>, ";")

RECURSIVE ExportLines(_)
ExportLines(rows) ==
  IF rows = <<>> THEN <<>>
  ELSE ExportLine(Head(rows)) \o <<"\n">> \o ExportLines(Tail(rows))

\* exportCustomersAsCSV: the rows of the table under the header line
exportCustomersAsCSV(remoteOk) ==
  /\ csvContent' = IF remoteOk
                     THEN [text |-> CsvHeader \o <<"\n">> \o ExportLines(customers)]
                     ELSE [error |-> "RemoteError"]
  /\ UNCHANGED storeVars

\* processCSV: the columns of a data line
Columns(line) ==
  LET separator == IF \E i \in DOMAIN line : line[i] = ";" THEN ";" ELSE ","
      parts == Split(line, separator)
  IN [i \in DOMAIN parts |-> StripQuotes(Trim(parts[i]))]

\* cols[k] || ''
ColumnOrEmpty(cols, k) == IF k <= Len(cols) THEN cols[k] ELSE <<>>

\* processCSV: the Customers parsed from the text
ParseCsv(csvText) ==
  LET lines == SplitLines(csvText)
      startIndex == IF Includes(ToLowerCase(lines[1]), <<"t", "e", "s", "i", "s", "a", "t">>)
                       \/ Includes(ToLowerCase(lines[1]),
                                   <<"i", "n", "s", "t", "a", "l", "l", "a", "t", "i", "o", "n">>)
                      THEN 1 ELSE 0
      Kept(i) == /\ i > startIndex
                 /\ Trim(lines[i]) # <<>>
                 /\ Len(Columns(Trim(lines[i]))) >= 2
      kept == SelectSeq([i \in DOMAIN lines |-> i], Kept)
  IN [n \in DOMAIN kept |->
        LET cols == Columns(Trim(lines[kept[n]]))
        IN [installationNumber |-> cols[1],
            name |-> ColumnOrEmpty(cols, 2),
            phone |-> ColumnOrEmpty(cols, 3),
            address |-> ColumnOrEmpty(cols, 4),
            latitude |-> ColumnOrEmpty(cols, 5),
            longitude |-> ColumnOrEmpty(cols, 6)]]

\* processCSV up to the first upsert of bulkUpsertCustomers; a text with no
\* data line ends the import before any call
processCSV(csvText) ==
  /\ ParseCsv(csvText) # <<>>
  /\ bulkUpsertCustomers_start(ParseCsv(csvText))
  /\ UNCHANGED <<lookupVars, csvContent>>

(***************************************************************************)
(* The search log and getUserActivityStats                                 *)
(***************************************************************************)
\* the most rows the search log holds
MaxLogRows == 3

\* how far the database clock runs, in seconds
MaxDbTime == 90

\* the property names every object literal inherits from Object.prototype
ObjectPrototypeKeys ==
  {"constructor", "__proto__", "toString", "toLocaleString", "valueOf",
   "hasOwnProperty", "isPrototypeOf", "propertyIsEnumerable",
   "__defineGetter__", "__defineSetter__", "__lookupGetter__", "__lookupSetter__"}

\* the database clock advances
DbTick ==
  /\ dbTime + 30 <= MaxDbTime
  /\ dbTime' = dbTime + 30
  /\ UNCHANGED <<search_logs, statsResult>>

\* logSearchQuery: the insert succeeds, answers with an error (ignored) or
\* throws (caught); created_at is the database's now()
logSearchQuery(username, installationNumber, outcome) ==
  /\ Len(search_logs) < MaxLogRows
  /\ search_logs' =
       IF outcome = "ok"
         THEN Append(search_logs, [username |-> username,
                                   installation_number |-> installationNumber,
                                   created_at |-> dbTime])
         ELSE search_logs
  /\ UNCHANGED <<dbTime, statsResult>>

\* toLocaleDateString('tr-TR') + ' ' + toLocaleTimeString('tr-TR', hour and
\* minute): the day, the hour and the minute of a time in seconds
FormatDate(t) == <<t \div 86400, (t % 86400) \div 3600, (t % 3600) \div 60>>

\* the body of logs.forEach for one row
GroupOne(stats, log) ==
  IF ~Truthy(log.username) THEN stats
  ELSE IF log.username \notin DOMAIN stats.entry
            /\ log.username \in ObjectPrototypeKeys
    \* stats[username] is the inherited member: no entry is created, and
    \* count and lastLoginDate are written on that member
    THEN stats
  ELSE LET u == log.username
           cur == IF u \in DOMAIN stats.entry THEN stats.entry[u]
                  ELSE [count |-> 0, lastLoginDate |-> <<>>]
           upd == [count |-> cur.count + 1,
                   lastLoginDate |->
                     IF cur.lastLoginDate = <<>> \/ log.created_at > cur.lastLoginDate[1]
                       THEN <<log.created_at>> ELSE cur.lastLoginDate]
       IN [keys |-> IF u \in DOMAIN stats.entry THEN stats.keys ELSE Append(stats.keys, u),
           entry |-> [k \in DOMAIN stats.entry \cup {u} |->
                        IF k = u THEN upd ELSE stats.entry[k]]]

RECURSIVE GroupLogs(_, _)
\* logs.forEach(...)
GroupLogs(logs, stats) ==
  IF logs = <<>> THEN stats ELSE GroupLogs(Tail(logs), GroupOne(stats, Head(logs)))

\* Object.keys(stats).map(...)
StatsRows(stats) ==
  [i \in DOMAIN stats.keys |->
     LET item == stats.entry[stats.keys[i]]
     IN [username |-> stats.keys[i],
         queryCount |-> item.count,
         lastLogin |-> IF item.lastLoginDate # <<>>
                         THEN FormatDate(item.lastLoginDate[1]) ELSE <<"Giris Yapmadi">>]]

\* data.map(...) over the rows of user_stats_view
ViewRows(data) ==
  [i \in DOMAIN data |->
     [username |-> data[i].username,
      queryCount |-> data[i].query_count,
      lastLogin |-> IF data[i].last_login # <<>>
                      THEN FormatDate(data[i].last_login[1]) ELSE <<"Giris Yapmadi">>]]

\* answers of the select on user_stats_view
ViewAnswers ==
  {[ok |-> FALSE, data |-> <<>>],
   [ok |-> TRUE, data |-> <<>>],
   [ok |-> TRUE, data |-> <<[username |-> "u1", query_count |-> 2, last_login |-> <<61>>],
                            [username |-> "u2", query_count |-> 0, last_login |-> <<>>]>>]}

\* getUserActivityStats; the select on search_logs returns the rows in the
\* order perm
getUserActivityStats(view, logsOk, perm) ==
  /\ statsResult' =
       IF view.ok THEN [rows |-> ViewRows(view.data), source |-> "view"]
       ELSE IF ~logsOk THEN [rows |-> <<>>, source |-> "none"]
       ELSE [rows |-> StatsRows(GroupLogs([i \in DOMAIN search_logs |-> search_logs[perm[i]]],
                                           ([keys |-> <<>>, entry |-> [u \in {} |-> 0]]))),
             source |-> "logs"]
  /\ UNCHANGED <<search_logs, dbTime>>

\* resetUserStats: deletes every row of search_logs with this username; an
\* error answer throws and deletes nothing
resetUserStats(username, remoteOk) ==
  /\ search_logs' =
       IF remoteOk
         THEN SelectSeq(search_logs, LAMBDA row : row.username # username)
         ELSE search_logs
  /\ UNCHANGED <<dbTime, statsResult>>

IdleLog ==
  /\ search_logs = <<>>
  /\ dbTime = 0
  /\ statsResult = NoResult

(***************************************************************************)
(* The lookup screen (MainScreen): performSearch and the recent searches   *)
(***************************************************************************)
\* performSearch calls that await the remote query at the same time
MaxPending == 2

\* searches followed from a visit of the lookup screen until their log
\* inserts have answered
MaxSearches == 2

\* what is typed into the search box or picked from the recent searches:
\* installation numbers, one of them with blanks around it, and blank terms
SearchTerms == {KeyOf(1), KeyOf(2), " 1002 ", KeyOf(3), "", "  "}

\* term.trim()
TrimTerm(term) ==
  CASE term = " 1002 " -> "1002" [] term = "  " -> "" [] OTHER -> term

\* saveToRecents: the list it computes from the recentSearches it closed over
SaveToRecents(list, term) ==
  LET NotTerm(x) == x # term
      updated == <<term>> \o SelectSeq(list, NotTerm)
  IN IF Len(updated) > MAX_RECENT_SEARCHES
       THEN SubSeq(updated, 1, MAX_RECENT_SEARCHES) ELSE updated

\* performSearch after findCustomerByInstallationNumber returned a customer;
\* closure is the recentSearches of the render the call was made in;
\* localStorage.setItem of the recent searches may throw, which lands in the
\* catch block
SearchFound(customer, term, closure, recentsOk) ==
  /\ foundCustomer' = customer
  /\ recentSearches' = SaveToRecents(closure, term)
  /\ IF recentsOk
       THEN /\ recentsStorage' = SaveToRecents(closure, term)
            /\ UNCHANGED searchError
       ELSE /\ UNCHANGED recentsStorage
            /\ searchError' = "QuotaExceededError"
  /\ logInFlight' = Append(logInFlight,
                           [username |-> currentUser, installation_number |-> term])
  /\ loading' = FALSE

\* the catch block without its logSearchQuery call
SearchFailed_NoLog(message, term) ==
  /\ searchError' = message
  /\ loading' = FALSE
  /\ UNCHANGED <<foundCustomer, recentSearches, recentsStorage, logInFlight>>

\* performSearch after findCustomerByInstallationNumber threw
SearchFailed(message, term) ==
  /\ searchError' = message
  /\ logInFlight' = Append(logInFlight,
                           [username |-> currentUser, installation_number |-> term])
  /\ loading' = FALSE
  /\ UNCHANGED <<foundCustomer, recentSearches, recentsStorage>>

\* performSearch(term) up to the remote query (a blank term returns before
\* anything is set, a cache hit answers at once); the search box and button
\* are disabled while loading
performSearch_start(term, recentsOk) ==
  /\ renderContent = "Main"
  /\ ~loading
  /\ IF TrimTerm(term) = ""
       THEN UNCHANGED <<searchVars, customers, lookupVars>>
       ELSE /\ Len(pendingSearches) < MaxPending
            /\ Len(search_logs) + Len(logInFlight) + Len(pendingSearches) < MaxSearches
            /\ MaxSearches <= MaxLogRows
            /\ cache' = CacheAfterGet(TrimTerm(term))
            /\ IF getFromCache(TrimTerm(term)) # NullCustomer
                 THEN /\ foundCustomer' = getFromCache(TrimTerm(term))
                      /\ recentSearches' = SaveToRecents(recentSearches, TrimTerm(term))
                      /\ IF recentsOk
                           THEN /\ recentsStorage' = SaveToRecents(recentSearches, TrimTerm(term))
                                /\ searchError' = ""
                           ELSE /\ UNCHANGED recentsStorage
                                /\ searchError' = "QuotaExceededError"
                      /\ logInFlight' = Append(logInFlight,
                                               [username |-> currentUser,
                                                installation_number |-> TrimTerm(term)])
                      /\ loading' = FALSE
                      /\ UNCHANGED pendingSearches
                 ELSE /\ loading' = TRUE
                      /\ foundCustomer' = NullCustomer
                      /\ searchError' = ""
                      /\ pendingSearches' = Append(pendingSearches,
                                                   [term |-> TrimTerm(term),
                                                    recentSearches |-> recentSearches])
                      /\ UNCHANGED <<recentSearches, recentsStorage, logInFlight>>
            /\ UNCHANGED <<customers, dateNow, findPc, findArg, findResult>>

\* the n-th pending performSearch once its remote query has answered
performSearch_resume(n, remoteOk, storageOk, recentsOk) ==
  /\ n \in DOMAIN pendingSearches
  /\ LET search == pendingSearches[n]
         data == SelectCustomer(customers, search.term)
     IN /\ pendingSearches' = SubSeq(pendingSearches, 1, n - 1)
                              \o SubSeq(pendingSearches, n + 1, Len(pendingSearches))
        /\ IF ~remoteOk
             THEN /\ SearchFailed("RemoteError", search.term)
                  /\ UNCHANGED cache
           ELSE IF data = NoRow
             THEN /\ SearchFailed("NotFound", search.term)
                  /\ UNCHANGED cache
           ELSE /\ cache' = CacheAfterSave(cache, search.term,
                                           mapSupabaseCustomerToApp(data), storageOk)
                /\ SearchFound(mapSupabaseCustomerToApp(data), search.term,
                               search.recentSearches, recentsOk)
  /\ UNCHANGED <<customers, dateNow, findPc, findArg, findResult>>

\* handleClear (the Temizle button, which stays enabled while a search loads)
handleClear ==
  /\ renderContent = "Main"
  /\ foundCustomer' = NullCustomer
  /\ loading' = FALSE
  /\ searchError' = ""
  /\ UNCHANGED <<recentSearches, recentsStorage, pendingSearches, logInFlight>>

\* a log insert whose failure reaches the screen
logSearchQuery_settle_Propagating(outcome) ==
  /\ logInFlight # <<>>
  /\ logSearchQuery(Head(logInFlight).username,
                    Head(logInFlight).installation_number, outcome)
  /\ logInFlight' = Tail(logInFlight)
  /\ searchError' = IF outcome = "ok" THEN searchError ELSE "LogError"
  /\ UNCHANGED <<recentSearches, recentsStorage, loading, pendingSearches,
                 foundCustomer>>

\* the insert of a logSearchQuery call answers: the row is appended, or the
\* insert fails and the failure is swallowed
logSearchQuery_settle(outcome) ==
  /\ logInFlight # <<>>
  /\ logSearchQuery(Head(logInFlight).username,
                    Head(logInFlight).installation_number, outcome)
  /\ logInFlight' = Tail(logInFlight)
  /\ UNCHANGED <<recentSearches, recentsStorage, loading, pendingSearches,
                 foundCustomer, searchError>>

IdleSearch ==
  /\ recentSearches = <<>>
  /\ recentsStorage = <<>>
  /\ loading = FALSE
  /\ pendingSearches = <<>>
  /\ foundCustomer = NullCustomer
  /\ searchError = ""
  /\ logInFlight = <<>>

IdleAdmin ==
  /\ adminPc = [a \in Admins |-> "idle"]
  /\ adminArg = [a \in Admins |-> NoCall]
  /\ adminResult = [a \in Admins |-> "none"]

IdleMain == IdleLog /\ IdleAdmin /\ (csvContent = NoResult) /\ IdleSearch

\* the lookup and the import, outside the specifications that exercise them
IdleLookup ==
  /\ cache = [k \in CacheKeys |-> NoEntry]
  /\ dateNow = 0
  /\ findPc = "idle"
  /\ findArg = Null
  /\ findResult = NoResult

IdleBulk ==
  /\ bulkPc = "idle"
  /\ dbRows = <<>>
  /\ bulkI = 0
  /\ totalSuccess = 0
  /\ totalErrors = 0
  /\ lastError = Null
  /\ bulkResult = NoResult
  /\ progressLog = <<>>
  /\ upsertCalls = 0

IdleStore ==
  /\ customers = (<<>>)
  /\ IdleLookup
  /\ IdleBulk

\* the remote users table and the login calls, outside the specifications
\* that exercise them
IdleAuth ==
  /\ users = [i \in UserRowIds |-> NoRow]
  /\ authPc = [c \in Clients |-> "idle"]
  /\ authCall = [c \in Clients |-> NoCall]
  /\ authResult = [c \in Clients |-> "none"]
  /\ firstBind = NoBind

(***************************************************************************)
(* Specification of the authentication subsystem                           *)
(***************************************************************************)
UserRows ==
  [username : Usernames, password : Passwords,
   allowed_device_id : {Null, "d1", "d2", ANY_DEVICE}]

InitAuth ==
  /\ IdleMain
  /\ IdleApp
  /\ IdleStore
  /\ users \in [UserRowIds -> UserRows \cup {NoRow}]
  /\ UsernameUnique(users)
  /\ \A i, j \in UserRowIds : (i < j /\ users[i] = NoRow) => users[j] = NoRow
  /\ authPc = [c \in Clients |-> "idle"]
  /\ authCall = [c \in Clients |-> NoCall]
  /\ authResult = [c \in Clients |-> "none"]
  /\ firstBind = NoBind

\* one browser at a time, every input
NextAuth ==
  \/ /\ \E u \in Usernames, p \in Passwords, d \in {"d1", "d2", ANY_DEVICE, ""}, ok \in BOOLEAN :
          authenticateUser_select("c1", u, p, d, ok)
     /\ UNCHANGED <<appVars, storeVars, mainVars>>
  \/ /\ \E ok \in BOOLEAN : authenticateUser_update("c1", ok)
     /\ UNCHANGED <<appVars, storeVars, mainVars>>
  \/ /\ \E cr \in Credentials : addCredential(cr)
     /\ UNCHANGED <<appVars, storeVars, mainVars>>
  \/ /\ \E u \in Usernames : deleteCredential(u)
     /\ UNCHANGED <<appVars, storeVars, mainVars>>
  \/ /\ \E u \in Usernames, cr \in Credentials : updateCredential(u, cr)
     /\ UNCHANGED <<appVars, storeVars, mainVars>>

SpecAuth == InitAuth /\ [][NextAuth]_vars

NextAuthRace ==
  \/ /\ \E c \in Clients, p \in Passwords, ok \in BOOLEAN :
          authenticateUser_select(c, "u1", p, (IF c = "c1" THEN "d1" ELSE "d2"), ok)
     /\ UNCHANGED <<appVars, storeVars, mainVars>>
  \/ /\ \E c \in Clients, ok \in BOOLEAN : authenticateUser_update(c, ok)
     /\ UNCHANGED <<appVars, storeVars, mainVars>>

SpecAuthRace == InitAuth /\ [][NextAuthRace]_vars

(***************************************************************************)
(* Specification of the gate over a calendar year                          *)
(***************************************************************************)

\* the sampled time that follows t
NextSample(t) ==
  IF t.minute = 0 THEN [t EXCEPT !.minute = 59]
  ELSE IF t.hour < 23 THEN [t EXCEPT !.hour = t.hour + 1, !.minute = 0]
  ELSE IF t.day < DaysInMonth(t.year, t.month)
    THEN Time(t.year, t.month, t.day + 1, 0, 0)
  ELSE IF t.month < 12 THEN Time(t.year, t.month + 1, 1, 0, 0)
  ELSE Time(t.year + 1, 1, 1, 0, 0)

InitGate ==
  /\ IdleMain
  /\ IdleAuth
  /\ IdleStore
  /\ now \in {t \in [year : {GateYear}, month : 1..12, day : 1..31, hour : 0..23,
                      minute : {0, 59}] :
                t.day <= DaysInMonth(t.year, t.month)}
  /\ isWorkingTime = isWithinWorkingHours(now)
  /\ appError = FALSE
  /\ isAuthenticated = FALSE
  /\ isAdmin = FALSE
  /\ currentUser = Null
  /\ isUnrestrictedUser = FALSE
  /\ legalAccepted = FALSE

NextGate ==
  \/ /\ NextSample(now).year = GateYear
     /\ ClockAdvance(NextSample(now))
     /\ UNCHANGED <<authVars, storeVars, mainVars>>
  \/ /\ IntervalTick
     /\ UNCHANGED <<authVars, storeVars, mainVars>>

SpecGate == InitGate /\ [][NextGate]_vars

(***************************************************************************)
(* Specification of the App shell                                          *)
(***************************************************************************)
\* local times the App is observed at: a holiday Thursday, a working Monday
\* around both ends of the window, the next morning, a Saturday, a Sunday and
\* a weekday after the 20th
AppTimes ==
  {Time(2026, 1, 1, 10, 0),
   Time(2026, 1, 5, 7, 59), Time(2026, 1, 5, 8, 0),
   Time(2026, 1, 5, 17, 59), Time(2026, 1, 5, 18, 0),
   Time(2026, 1, 6, 8, 0),
   Time(2026, 1, 10, 10, 0), Time(2026, 1, 11, 10, 0),
   Time(2026, 1, 21, 10, 0)}

InitApp ==
  /\ IdleMain
  /\ IdleStore
  /\ users \in [UserRowIds -> UserRows \cup {NoRow}]
  /\ users[1] # NoRow /\ users[1].username = "u1" /\ users[1].password = "p1"
  /\ \A i \in UserRowIds : i > 1 => users[i] = NoRow
  /\ authPc = [c \in Clients |-> "idle"]
  /\ authCall = [c \in Clients |-> NoCall]
  /\ authResult = [c \in Clients |-> "none"]
  /\ firstBind = NoBind
  /\ now \in AppTimes
  /\ isWorkingTime = isWithinWorkingHours(now)
  /\ appError \in BOOLEAN
  /\ isAuthenticated = FALSE
  /\ isAdmin = FALSE
  /\ currentUser = Null
  /\ isUnrestrictedUser = FALSE
  /\ legalAccepted = FALSE

NextApp ==
  \/ /\ \E u \in {"u1", "admin"}, p \in {"p1", "p2", "admin123"}, d \in {"d1", "d2"},
           ok \in BOOLEAN : handleLogin(u, p, d, ok)
     /\ UNCHANGED <<storeVars, mainVars>>
  \/ /\ \E ok \in BOOLEAN : handleLogin_resume(ok)
     /\ UNCHANGED <<storeVars, mainVars>>
  \/ /\ handleLogout
     /\ UNCHANGED <<storeVars, mainVars>>
  \/ /\ handleAcceptLegal
     /\ UNCHANGED <<storeVars, mainVars>>
  \/ /\ handleDeclineLegal
     /\ UNCHANGED <<storeVars, mainVars>>
  \/ /\ IntervalTick
     /\ UNCHANGED <<authVars, storeVars, mainVars>>
  \/ /\ \E t \in AppTimes : ClockAdvance(t)
     /\ UNCHANGED <<authVars, storeVars, mainVars>>

SpecApp == InitApp /\ [][NextApp]_vars

(***************************************************************************)
(* Specification of the cached lookup                                      *)
(***************************************************************************)
InitLookup ==
  /\ IdleMain
  /\ IdleAuth
  /\ IdleApp
  /\ IdleLookup
  /\ IdleBulk
  /\ customers \in {<<>>, <<ToDbRow(CustomerA(1))>>, <<ToDbRow(CustomerA(2))>>,
                    <<ToDbRow(CustomerA(1)), ToDbRow(CustomerA(2))>>}

\* lookups on one browser, time passing, and one-record imports that change
\* the looked-up customers meanwhile
NextLookup ==
  \/ /\ \E k \in ({KeyOf(1), KeyOf(2)}) : findCustomer_cache(k)
     /\ UNCHANGED <<authVars, appVars, bulkVars, mainVars>>
  \/ /\ \E remoteOk \in BOOLEAN, storageOk \in BOOLEAN :
          findCustomer_query(remoteOk, storageOk)
     /\ UNCHANGED <<authVars, appVars, bulkVars, mainVars>>
  \/ /\ \E ms \in {1, CACHE_DURATION_MS} : TimePasses(ms)
     /\ UNCHANGED <<authVars, appVars, bulkVars, mainVars>>
  \/ /\ \E j \in {1, 2} : bulkUpsertCustomers_start(<<CustomerB(j)>>)
     /\ UNCHANGED <<authVars, appVars, lookupVars, mainVars>>
  \/ /\ bulkUpsertCustomers_chunkOk
     /\ UNCHANGED <<authVars, appVars, lookupVars, mainVars>>
  \/ /\ bulkUpsertCustomers_next
     /\ UNCHANGED <<authVars, appVars, lookupVars, mainVars>>

SpecLookup == InitLookup /\ [][NextLookup]_vars

(***************************************************************************)
(* Specification of the bulk import                                        *)
(***************************************************************************)
\* the largest input, in whole chunks (one more record is added to it)
MaxChunks == 2

\* an import of n records with distinct installation numbers
BulkInput(n) == [j \in 1..n |-> IF j % 2 = 1 THEN CustomerA(j) ELSE CustomerB(j)]

InitBulk ==
  /\ IdleMain
  /\ IdleAuth
  /\ IdleApp
  /\ IdleLookup
  /\ IdleBulk
  /\ customers \in {(<<>>), <<ToDbRow(CustomerB(1))>>}

\* one import per behaviour, of any of the sizes, into either table
NextBulk ==
  \/ /\ bulkResult = NoResult
     /\ \E n \in {0, 1, CHUNK_SIZE - 1}
                   \cup {c * CHUNK_SIZE : c \in 1..MaxChunks}
                   \cup {c * CHUNK_SIZE + 1 : c \in 1..MaxChunks} :
          bulkUpsertCustomers_start(BulkInput(n))
     /\ UNCHANGED <<authVars, appVars, lookupVars, mainVars>>
  \/ /\ bulkUpsertCustomers_chunkOk
     /\ UNCHANGED <<authVars, appVars, lookupVars, mainVars>>
  \/ /\ \E error \in ChunkErrors : bulkUpsertCustomers_chunkError(error)
     /\ UNCHANGED <<authVars, appVars, lookupVars, mainVars>>
  \/ /\ \E applied \in BOOLEAN : bulkUpsertCustomers_chunkThrows(applied)
     /\ UNCHANGED <<authVars, appVars, lookupVars, mainVars>>
  \/ /\ bulkUpsertCustomers_next
     /\ UNCHANGED <<authVars, appVars, lookupVars, mainVars>>

SpecBulk == InitBulk /\ [][NextBulk]_vars

NextBulkLive ==
  \/ /\ bulkResult = NoResult
     /\ \E n \in {0, 1, 2, CHUNK_SIZE - 1, CHUNK_SIZE, CHUNK_SIZE + 1} :
          bulkUpsertCustomers_start(BulkInput(n))
     /\ UNCHANGED <<authVars, appVars, lookupVars, mainVars>>
  \/ /\ bulkUpsertCustomers_chunkOk
     /\ UNCHANGED <<authVars, appVars, lookupVars, mainVars>>
  \/ /\ \E error \in ChunkErrors : bulkUpsertCustomers_chunkError(error)
     /\ UNCHANGED <<authVars, appVars, lookupVars, mainVars>>
  \/ /\ \E applied \in BOOLEAN : bulkUpsertCustomers_chunkThrows(applied)
     /\ UNCHANGED <<authVars, appVars, lookupVars, mainVars>>
  \/ /\ bulkUpsertCustomers_next
     /\ UNCHANGED <<authVars, appVars, lookupVars, mainVars>>

\* no awaited upsert stays pending for ever (an answer that is always possible
\* is eventually given, unless another one is), and the 100 ms timer fires
SpecBulkLive ==
  /\ InitBulk
  /\ [][NextBulkLive]_vars
  /\ WF_vars((\E error \in ChunkErrors : bulkUpsertCustomers_chunkError(error))
               /\ UNCHANGED <<authVars, appVars, lookupVars, mainVars>>)
  /\ WF_vars(bulkUpsertCustomers_next
               /\ UNCHANGED <<authVars, appVars, lookupVars, mainVars>>)

(***************************************************************************)
(* Specification of repeated imports                                       *)
(***************************************************************************)

NextUpsert ==
  \/ /\ \E input \in {<<CustomerA(1), CustomerB(1)>>,
                        BulkInput(CHUNK_SIZE) \o <<CustomerB(1)>>,
                        <<CustomerA(2)>>,
                        <<CustomerB(2), CustomerA(3)>>} :
          bulkUpsertCustomers_start(input)
     /\ UNCHANGED <<authVars, appVars, lookupVars, mainVars>>
  \/ /\ bulkUpsertCustomers_chunkOk
     /\ UNCHANGED <<authVars, appVars, lookupVars, mainVars>>
  \/ /\ \E error \in ChunkErrors : bulkUpsertCustomers_chunkError(error)
     /\ UNCHANGED <<authVars, appVars, lookupVars, mainVars>>
  \/ /\ \E applied \in BOOLEAN : bulkUpsertCustomers_chunkThrows(applied)
     /\ UNCHANGED <<authVars, appVars, lookupVars, mainVars>>
  \/ /\ bulkUpsertCustomers_next
     /\ UNCHANGED <<authVars, appVars, lookupVars, mainVars>>

SpecUpsert == InitBulk /\ [][NextUpsert]_vars

(***************************************************************************)
(* Specification of the admin console                                      *)
(***************************************************************************)
\* the Credentials the admins enter
AdminCredentials ==
  {c \in Credentials : c.password = "p1" /\ c.allowedDeviceId \in {"", ANY_DEVICE}}

InitAdmin ==
  /\ IdleApp
  /\ IdleStore
  /\ IdleMain
  /\ IdleAuth
  /\ \/ \A i \in UserRowIds : users[i] = NoRow
     \/ /\ users[1] = CredentialRow([username |-> "u1", password |-> "p1",
                                     allowedDeviceId |-> ""])
        /\ \A i \in UserRowIds : i > 1 => users[i] = NoRow

\* two admin consoles adding, editing and deleting users
NextAdmin ==
  \/ /\ \E a \in Admins, c \in AdminCredentials, ok \in BOOLEAN :
          addCredential_check(a, c, ok)
     /\ UNCHANGED <<appVars, storeVars, logVars, csvContent, searchVars>>
  \/ /\ \E a \in Admins, ok \in BOOLEAN : addCredential_insert(a, ok)
     /\ UNCHANGED <<appVars, storeVars, logVars, csvContent, searchVars>>
  \/ /\ \E o \in Usernames, c \in AdminCredentials : updateCredential(o, c)
     /\ UNCHANGED <<appVars, storeVars, logVars, adminVars, csvContent, searchVars>>
  \/ /\ \E u \in Usernames : deleteCredential(u)
     /\ UNCHANGED <<appVars, storeVars, logVars, adminVars, csvContent, searchVars>>

SpecAdmin == InitAdmin /\ [][NextAdmin]_vars

(***************************************************************************)
(* Specification of CSV import and export                                  *)
(***************************************************************************)
\* the files imported:
\*   1001;Ali;555;Izmir
\*   a header line, then  1002;"Veli, K";"5 5";"Cad, 5";38,5;27.1
\*   " 1003 ";"a";" 7 ";x           (quoted fields padded inside the quotes)
\*   1001,Can,556                   (comma separated)
CsvTexts ==
  {<<"1", "0", "0", "1", ";", "A", "l", "i", ";", "5", "5", "5", ";", "I", "z", "m", "i", "r", "\n">>,
   <<"T", "e", "s", "i", "s", "a", "t", " ", "N", "o", ";", "A", "d", "\n", "1", "0", "0", "2", ";", "\"", "V", "e", "l", "i", ",", " ", "K", "\"", ";", "\"", "5", " ", "5", "\"", ";", "\"", "C", "a", "d", ",", " ", "5", "\"", ";", "3", "8", ",", "5", ";", "2", "7", ".", "1", "\n">>,
   <<"\"", " ", "1", "0", "0", "3", " ", "\"", ";", "\"", "a", "\"", ";", "\"", " ", "7", " ", "\"", ";", "x", "\n">>,
   <<"1", "0", "0", "1", ",", "C", "a", "n", ",", "5", "5", "6", "\n">>}

InitCsv ==
  /\ IdleAuth
  /\ IdleApp
  /\ IdleStore
  /\ IdleMain

NextCsv ==
  \/ /\ \E csvText \in CsvTexts : processCSV(csvText)
     /\ UNCHANGED <<authVars, appVars, logVars, adminVars, searchVars>>
  \/ /\ bulkUpsertCustomers_chunkOk
     /\ UNCHANGED <<authVars, appVars, lookupVars, mainVars>>
  \/ /\ bulkUpsertCustomers_next
     /\ UNCHANGED <<authVars, appVars, lookupVars, mainVars>>
  \/ /\ \E remoteOk \in BOOLEAN : exportCustomersAsCSV(remoteOk)
     /\ UNCHANGED <<authVars, appVars, logVars, adminVars, searchVars>>

SpecCsv == InitCsv /\ [][NextCsv]_vars

(***************************************************************************)
(* Specification of the usage statistics                                   *)
(***************************************************************************)
InitStats ==
  /\ IdleAuth
  /\ IdleApp
  /\ IdleStore
  /\ IdleMain

NextStats ==
  \/ /\ \E u \in (Usernames \cup {"constructor"}), outcome \in {"ok", "error", "throws"} :
          logSearchQuery(u, KeyOf(1), outcome)
     /\ UNCHANGED <<authVars, appVars, storeVars, adminVars, csvContent, searchVars>>
  \/ /\ DbTick
     /\ UNCHANGED <<authVars, appVars, storeVars, adminVars, csvContent, searchVars>>
  \/ /\ \E view \in ViewAnswers, logsOk \in BOOLEAN,
          perm \in Permutations(1..Len(search_logs)) :
          getUserActivityStats(view, logsOk, perm)
     /\ UNCHANGED <<authVars, appVars, storeVars, adminVars, csvContent, searchVars>>
  \/ /\ \E u \in Usernames, remoteOk \in BOOLEAN : resetUserStats(u, remoteOk)
     /\ UNCHANGED <<authVars, appVars, storeVars, adminVars, csvContent, searchVars>>

SpecStats == InitStats /\ [][NextStats]_vars

\* a user on the lookup screen, the recent searches loaded by the mount effect
InitSearch ==
  /\ IdleAuth
  /\ now = Time(GateYear, 1, 5, 8, 0)
  /\ isWorkingTime = isWithinWorkingHours(now)
  /\ appError = FALSE
  /\ isAuthenticated = TRUE
  /\ isAdmin = FALSE
  /\ currentUser = "u1"
  /\ isUnrestrictedUser = FALSE
  /\ legalAccepted = TRUE
  /\ customers = [j \in 1..(MAX_RECENT_SEARCHES + 1) |->
                    ToDbRow(IF j % 2 = 0 THEN CustomerA(j + 1) ELSE CustomerB(j + 1))]
  /\ IdleLookup
  /\ IdleBulk
  /\ IdleLog
  /\ IdleAdmin
  /\ (csvContent = NoResult)
  /\ recentsStorage \in {<<>>, <<KeyOf(4), KeyOf(3), KeyOf(2)>>,
                          <<KeyOf(3), KeyOf(4), KeyOf(5), KeyOf(6), KeyOf(7)>>}
  /\ recentSearches = recentsStorage
  /\ loading = FALSE
  /\ pendingSearches = <<>>
  /\ foundCustomer = NullCustomer
  /\ searchError = ""
  /\ logInFlight = <<>>

NextSearch ==
  \/ /\ \E term \in SearchTerms, recentsOk \in BOOLEAN :
          performSearch_start(term, recentsOk)
     /\ UNCHANGED <<authVars, appVars, bulkVars, logVars, adminVars, csvContent>>
  \/ /\ \E n \in 1..MaxPending, remoteOk \in BOOLEAN, storageOk \in BOOLEAN,
          recentsOk \in BOOLEAN :
          performSearch_resume(n, remoteOk, storageOk, recentsOk)
     /\ UNCHANGED <<authVars, appVars, bulkVars, logVars, adminVars, csvContent>>
  \/ /\ handleClear
     /\ UNCHANGED <<authVars, appVars, storeVars, logVars, adminVars, csvContent>>
  \/ /\ \E outcome \in {"ok", "error", "throws"} : logSearchQuery_settle(outcome)
     /\ UNCHANGED <<authVars, appVars, storeVars, adminVars, csvContent>>

SpecSearch == InitSearch /\ [][NextSearch]_vars

(***************************************************************************)
(* Properties of authenticateUser                                          *)
(***************************************************************************)
\* the last authenticateUser of client c has settled on a row the select returned
Settled(c) ==
  /\ authCall[c] # NoCall
  /\ authPc[c] = "idle"
  /\ authResult[c] # "RemoteError"

PasswordOk(c) ==
  authCall[c].data # NoRow /\ authCall[c].data.password = authCall[c].password

\* C1: once a first login on an empty allowedDeviceId has stored its device
\* id d1, and with no admin edit since, every later authenticateUser with the
\* correct password and a device id other than d1 fails with
\* DeviceNotAuthorized.
C1_FirstUseBindingLocks ==
  \A c \in Clients :
    ( /\ firstBind # NoBind
      /\ Settled(c)
      /\ authCall[c].username = firstBind.username
      /\ PasswordOk(c)
      /\ authCall[c].deviceId # firstBind.deviceId )
    => authResult[c] = "DeviceNotAuthorized"

\* C2: on a credential with a concrete allowedDeviceId and the correct
\* password, authenticateUser fails with DeviceNotAuthorized for a different
\* device id, and returns false (restricted), writing nothing, for the same one.
C2_ConcreteDeviceRule ==
  \A c \in Clients :
    ( /\ Settled(c)
      /\ PasswordOk(c)
      /\ Concrete(authCall[c].data.allowed_device_id) )
    => authResult[c] =
         IF authCall[c].data.allowed_device_id # authCall[c].deviceId
           THEN "DeviceNotAuthorized" ELSE "restricted"

C2_Witness ==
  \E c \in Clients :
    /\ Settled(c) /\ PasswordOk(c)
    /\ authCall[c].data.allowed_device_id = "d1"
    /\ authCall[c].deviceId = "d2"
    /\ authResult[c] = "DeviceNotAuthorized"

\* C3: on a credential whose allowedDeviceId is the sentinel, authenticateUser
\* with the correct password returns true (unrestricted) for every device id,
\* the empty one included, and never reaches the device check or the binding.
C3_SentinelUnrestricted ==
  \A c \in Clients :
    ( /\ authCall[c] # NoCall
      /\ authResult[c] # "RemoteError"
      /\ PasswordOk(c)
      /\ authCall[c].data.allowed_device_id = ANY_DEVICE )
    => authResult[c] = "unrestricted" /\ authPc[c] = "idle"

C3_Witness ==
  \E c \in Clients :
    /\ Settled(c) /\ PasswordOk(c)
    /\ authCall[c].data.allowed_device_id = ANY_DEVICE
    /\ authCall[c].deviceId = ""
    /\ authResult[c] = "unrestricted"

\* C4: authenticateUser fails with InvalidCredentials whenever the select
\* finds no row for the username or the password differs from the stored one,
\* whatever allowedDeviceId and the device id are.
C4_InvalidCredentialsFirst ==
  \A c \in Clients :
    ( /\ authCall[c] # NoCall
      /\ authResult[c] # "RemoteError"
      /\ ~PasswordOk(c) )
    => authResult[c] = "InvalidCredentials" /\ authPc[c] = "idle"

C4_Witness ==
  \E c \in Clients :
    /\ Settled(c)
    /\ authCall[c].data # NoRow
    /\ authCall[c].data.password # authCall[c].password
    /\ authCall[c].data.allowed_device_id = ANY_DEVICE
    /\ authResult[c] = "InvalidCredentials"

\* C5: once a credential's allowedDeviceId holds a concrete device value, no
\* step of any authenticateUser call changes it, also when calls from several
\* devices interleave.
C5_ConcreteBindingStable ==
  [][(authPc' # authPc \/ authCall' # authCall \/ authResult' # authResult) =>
       \A i \in UserRowIds :
         (users[i] # NoRow /\ Concrete(users[i].allowed_device_id))
           => users'[i] = users[i]]_vars

C24_AppendOnly ==
  [][\A i \in DOMAIN search_logs :
       /\ i \in DOMAIN search_logs'
       /\ search_logs'[i] = search_logs[i]]_vars

\* C25: the first-use binding of authenticateUser never stores the sentinel
\* 'ANY_DEVICE': whatever device id the caller supplies, no login turns a row
\* that is not unrestricted into an unrestricted one; only the admin's add and
\* edit do.
C25_LoginNeverStoresSentinel ==
  [][\A c \in Clients :
       (\E ok \in BOOLEAN : authenticateUser_update(c, ok))
         => \A i \in DOMAIN users :
              users'[i].allowed_device_id = ANY_DEVICE
                => users[i].allowed_device_id = ANY_DEVICE]_vars

\* C26: bulkUpsertCustomers leaves the lookup cache unchanged: a step that
\* changes the customers table changes no cache entry; while an entry for k
\* is within its lifetime, findCustomer(k) returns that entry's snapshot
\* without a remote query, whatever the table holds by then; and an entry is
\* removed only by a read of its key after the lifetime has passed.
C26_BulkLeavesCache ==
  /\ [][customers' # customers => cache' = cache]_vars
  /\ [][\A k \in {KeyOf(1), KeyOf(2)} :
          (/\ findCustomer_cache(k)
           /\ cache[k] # NoEntry
           /\ dateNow - cache[k].timestamp <= CACHE_DURATION_MS)
            => /\ findPc' = "idle"
               /\ findResult' = [status |-> "ok", remote |-> FALSE,
                                 customer |-> cache[k].data]
               /\ cache' = cache]_vars
  /\ [][\A k \in CacheKeys :
          (cache[k] # NoEntry /\ cache'[k] # cache[k])
            => /\ findPc = "idle"
               /\ findArg' = k
               /\ dateNow - cache[k].timestamp > CACHE_DURATION_MS
               /\ cache'[k] = NoEntry]_vars

\* the import has replaced customer 1001 in the table, and findCustomer has
\* just answered 1001 from the cache with the snapshot taken before
C26_Witness ==
  /\ upsertCalls > 0
  /\ findPc = "idle"
  /\ findArg = KeyOf(1)
  /\ findResult # NoResult
  /\ findResult.status = "ok"
  /\ ~findResult.remote
  /\ cache[KeyOf(1)] # NoEntry
  /\ findResult.customer = cache[KeyOf(1)].data
  /\ SelectCustomer(customers, KeyOf(1)) = ToDbRow(CustomerB(1))
  /\ findResult.customer.name # CustomerB(1).name

\* C29: when the write that binds the device on a first login fails, the
\* call still returns restricted access (nothing is reported to the caller)
\* and the row is left as it was, unbound; a later login with the correct
\* password from any other device passes the checks as well and attempts the
\* binding again.
C29_FailedBindStaysUnbound ==
  /\ [][\A c \in Clients :
          authenticateUser_update(c, FALSE)
            => /\ authResult'[c] = "restricted"
               /\ users' = users
               /\ firstBind' = firstBind]_vars
  /\ [](\A c \in Clients :
          (/\ authCall[c] # NoCall
           /\ authPc[c] = "idle"
           /\ authResult[c] = "restricted"
           /\ authCall[c].data # NoRow
           /\ authCall[c].data.allowed_device_id = Null
           /\ firstBind = NoBind)
            => /\ Single(users, authCall[c].username) = authCall[c].data
               /\ \A d \in {"d1", "d2"} :
                    AuthOutcome(Single(users, authCall[c].username),
                                authCall[c].password, d) = "bind")
  /\ [][\A c \in Clients, p \in Passwords, d \in {"d1", "d2"} :
          (/\ authenticateUser_select(c, "u1", p, d, TRUE)
           /\ Single(users, "u1") # NoRow
           /\ Single(users, "u1").password = p
           /\ ~Truthy(Single(users, "u1").allowed_device_id))
            => /\ authPc'[c] = "update"
               /\ authResult'[c] = "pending"]_vars

\* the login from d1 returned restricted access although its write failed (no
\* binding was ever written), and a login from d2 has passed the checks and is
\* about to write its own binding
C29_Witness ==
  /\ authCall["c1"] # NoCall
  /\ authPc["c1"] = "idle"
  /\ authResult["c1"] = "restricted"
  /\ authCall["c1"].deviceId = "d1"
  /\ authCall["c1"].data # NoRow
  /\ authCall["c1"].data.allowed_device_id = Null
  /\ firstBind = NoBind
  /\ authPc["c2"] = "update"
  /\ authCall["c2"].deviceId = "d2"
  /\ authResult["c2"] = "pending"

(***************************************************************************)
(* Properties of the working-hours gate                                    *)
(***************************************************************************)
\* the four rules of the service window
OpenRule(t) ==
  /\ t.day <= 20
  /\ getDay(t) \in 1..5
  /\ t.hour >= 8 /\ t.hour < 18
  /\ formattedDate(t) \notin publicHolidays

\* C6: the gate evaluates to true exactly when day-of-month <= 20, the day is
\* Monday to Friday, the hour is in [8, 18) and the date is no public holiday;
\* so it is false on day 21, on Saturday and Sunday, at 07:59 and at 18:00 and
\* on a holiday, and true at 08:00 of a working day.  It holds of the value
\* computed at mount and of every value the interval callback computes.
C6_GateRule ==
  /\ isWorkingTime = OpenRule(now)
  /\ [][IntervalTick =>
          /\ isWorkingTime' = OpenRule(now)
          /\ now.day >= 21 => ~isWorkingTime'
          /\ getDay(now) \in {0, 6} => ~isWorkingTime'
          /\ (now.hour = 7 /\ now.minute = 59) => ~isWorkingTime'
          /\ (now.hour = 18 /\ now.minute = 0) => ~isWorkingTime'
          /\ (now.year = 2026 /\ now.month = 1 /\ now.day \in {3, 4, 10, 11})
               => ~isWorkingTime'
          /\ (now.year = 2026 /\ now.month = 1 /\ now.day = 1) => ~isWorkingTime'
          /\ (now.year = 2026 /\ now.month = 1 /\ now.day = 5 /\ now.hour = 8)
               => isWorkingTime']_vars

C6_Witness ==
  /\ now.month = 1 /\ now.day = 5 /\ now.hour = 18 /\ now.minute = 0
  /\ getDay(now) \in 1..5
  /\ formattedDate(now) \notin publicHolidays
  /\ ~isWorkingTime

(***************************************************************************)
(* Properties of the App shell                                             *)
(***************************************************************************)
\* C7: while a non-admin session is authenticated and has accepted the legal
\* notice the interval exists, and every evaluation it makes decides the
\* screen: the offline screen when the service is closed, the lookup screen
\* when it is open, the session staying authenticated with the same user.
C7_GateFollowsInterval ==
  /\ [](isAuthenticated => ~appError)
  /\ [][(IntervalTick /\ isAuthenticated /\ ~isAdmin /\ legalAccepted) =>
          /\ renderContent' =
               IF isWithinWorkingHours(now) THEN "Main" ELSE "Offline"
          /\ isAuthenticated'
          /\ currentUser' = currentUser
          /\ legalAccepted']_vars

C7_Witness ==
  /\ isAuthenticated /\ ~isAdmin /\ legalAccepted
  /\ currentUser = "u1"
  /\ now = Time(2026, 1, 5, 18, 0)
  /\ renderContent = "Offline"

\* C27: the lookup screen is shown only with no configuration error, an
\* authenticated session that is not the admin session, the legal notice
\* accepted and the latest gate evaluation open; the checks apply in that
\* order: the superuser sees the admin console whatever the gate says, and a
\* non-admin user who has not accepted sees the legal screen, not the offline
\* screen, when the gate is closed.
C27_ScreenOrder ==
  /\ renderContent = "Main"
       => /\ ~appError
          /\ isAuthenticated
          /\ ~isAdmin
          /\ legalAccepted
          /\ isWorkingTime
  /\ appError => renderContent = "ConfigError"
  /\ (~appError /\ ~isAuthenticated) => renderContent = "Login"
  /\ (~appError /\ isAuthenticated /\ isAdmin) => renderContent = "Admin"
  /\ (~appError /\ isAuthenticated /\ ~isAdmin /\ ~legalAccepted)
       => renderContent = "Legal"
  /\ (~appError /\ isAuthenticated /\ ~isAdmin /\ legalAccepted /\ ~isWorkingTime)
       => renderContent = "Offline"

\* the superuser is logged in while the gate is closed and sees the console
C27_Witness ==
  /\ isAuthenticated
  /\ isAdmin
  /\ ~isWorkingTime
  /\ renderContent = "Admin"

\* C28: every search with a non-blank term makes exactly one logSearchQuery
\* call for the acting username and the trimmed term, on a cache hit, on a
\* remote hit, on NotFound and on a remote error alike; each call whose
\* insert succeeds appends exactly one entry, and entries are appended in no
\* other way; a blank term makes no call and appends nothing.
C28_OneLogPerSearch ==
  /\ [][\A t \in SearchTerms, recentsOk \in BOOLEAN :
          performSearch_start(t, recentsOk)
            => /\ search_logs' = search_logs
               /\ IF TrimTerm(t) = ""
                    THEN logInFlight' = logInFlight /\ pendingSearches' = pendingSearches
                  ELSE IF getFromCache(TrimTerm(t)) # NullCustomer
                    THEN /\ logInFlight' =
                              Append(logInFlight,
                                     [username |-> currentUser,
                                      installation_number |-> TrimTerm(t)])
                         /\ pendingSearches' = pendingSearches
                  ELSE /\ logInFlight' = logInFlight
                       /\ Len(pendingSearches') = Len(pendingSearches) + 1]_vars
  /\ [][\A n \in 1..MaxPending, remoteOk \in BOOLEAN, storageOk \in BOOLEAN,
          recentsOk \in BOOLEAN :
          performSearch_resume(n, remoteOk, storageOk, recentsOk)
            => /\ search_logs' = search_logs
               /\ Len(pendingSearches') = Len(pendingSearches) - 1
               /\ logInFlight' =
                    Append(logInFlight,
                           [username |-> currentUser,
                            installation_number |-> pendingSearches[n].term])]_vars
  /\ [][\A outcome \in {"ok", "error", "throws"} :
          logSearchQuery_settle(outcome)
            => /\ logInFlight' = Tail(logInFlight)
               /\ search_logs' =
                    IF outcome = "ok"
                      THEN Append(search_logs,
                                  [username |-> Head(logInFlight).username,
                                   installation_number |->
                                     Head(logInFlight).installation_number,
                                   created_at |-> dbTime])
                      ELSE search_logs]_vars
  /\ [][search_logs' # search_logs
          => /\ logInFlight # <<>>
             /\ logInFlight' = Tail(logInFlight)
             /\ Len(search_logs') = Len(search_logs) + 1]_vars
  /\ [](\A i \in DOMAIN search_logs :
          /\ search_logs[i].username = currentUser
          /\ search_logs[i].installation_number \in {TrimTerm(t) : t \in SearchTerms} \ {""})

\* the lookup of 1001 failed with NotFound, and its attempt is in the log
C28_Witness ==
  /\ searchError = "NotFound"
  /\ pendingSearches = <<>>
  /\ logInFlight = <<>>
  /\ Len(search_logs) = 1
  /\ search_logs[1].username = currentUser
  /\ search_logs[1].installation_number = KeyOf(1)

\* C30: every successful non-admin login sets legalAccepted to false together
\* with the other session attributes; logout and declining the legal notice
\* clear isAuthenticated, isAdmin, currentUser, isUnrestrictedUser and
\* legalAccepted together; a failed login changes no session attribute.  So
\* an unauthenticated App holds no attribute of a former session, the
\* acceptance is set only by accepting on the legal screen (or by the admin
\* login), and the lookup screen is entered only from the legal screen or the
\* offline screen of the same user's session.
C30_SessionReset ==
  /\ [][\A u \in {"u1", "admin"}, p \in {"p1", "p2", "admin123"}, d \in {"d1", "d2"},
          ok \in BOOLEAN :
          (handleLogin(u, p, d, ok) /\ ~(u = "admin" /\ p = "admin123"))
            => IF authResult'[AppClient] \in {"restricted", "unrestricted"}
                 THEN /\ isAuthenticated'
                      /\ ~isAdmin'
                      /\ currentUser' = u
                      /\ isUnrestrictedUser' = (authResult'[AppClient] = "unrestricted")
                      /\ ~legalAccepted'
                 ELSE UNCHANGED sessionVars]_vars
  /\ [][(\E ok \in BOOLEAN : handleLogin_resume(ok))
          => /\ isAuthenticated'
             /\ ~isAdmin'
             /\ currentUser' = authCall[AppClient].username
             /\ ~isUnrestrictedUser'
             /\ ~legalAccepted']_vars
  /\ [][(handleLogout \/ handleDeclineLegal)
          => /\ ~isAuthenticated'
             /\ ~isAdmin'
             /\ currentUser' = Null
             /\ ~isUnrestrictedUser'
             /\ ~legalAccepted']_vars
  /\ [](~isAuthenticated
          => /\ ~isAdmin
             /\ currentUser = Null
             /\ ~isUnrestrictedUser
             /\ ~legalAccepted)
  /\ [][(legalAccepted' /\ ~legalAccepted)
          => \/ isAdmin' /\ ~isAuthenticated
             \/ /\ renderContent = "Legal"
                /\ UNCHANGED <<isAuthenticated, isAdmin, currentUser, isUnrestrictedUser>>]_vars
  /\ [][(currentUser' # currentUser \/ isAuthenticated' # isAuthenticated)
          => (legalAccepted' <=> isAdmin')]_vars
  /\ [][(renderContent' = "Main" /\ renderContent # "Main")
          => /\ renderContent \in {"Legal", "Offline"}
             /\ currentUser' = currentUser]_vars

\* u1 has logged in again on the device bound by an earlier login of theirs,
\* and is shown the legal notice again
C30_Witness ==
  /\ firstBind # NoBind
  /\ authCall[AppClient] # NoCall
  /\ authCall[AppClient].data # NoRow
  /\ authCall[AppClient].data.allowed_device_id = firstBind.deviceId
  /\ authResult[AppClient] = "restricted"
  /\ isAuthenticated
  /\ ~isAdmin
  /\ currentUser = "u1"
  /\ ~legalAccepted
  /\ renderContent = "Legal"

(***************************************************************************)
(* Properties of the cached lookup                                         *)
(***************************************************************************)
\* C8: a lookup of k that finds an entry no older than 24 h returns the data
\* of that entry without a remote query and leaves the cache alone, whatever
\* the remote row has become; a lookup that finds no entry, or one older than
\* 24 h, goes to the remote store (dropping the old entry), and the row
\* fetched is stored under k with the current time as its timestamp.
C8_CacheRoundTrip ==
  [][ /\ \A k \in ({KeyOf(1), KeyOf(2)}) :
           findCustomer_cache(k) =>
             IF cache[k] # NoEntry /\ dateNow - cache[k].timestamp <= CACHE_DURATION_MS
               THEN /\ findPc' = "idle"
                    /\ findResult' # NoResult
                    /\ findResult'.status = "ok"
                    /\ ~findResult'.remote
                    /\ SameCustomer(findResult'.customer, cache[k].data)
                    /\ cache' = cache
               ELSE /\ findPc' = "query"
                    /\ cache'[k] = NoEntry
      /\ (findCustomer_query(TRUE, TRUE) /\ findArg \in CustomerKeys(customers)) =>
           /\ findResult'.status = "ok" /\ findResult'.remote
           /\ cache'[findArg] # NoEntry
           /\ cache'[findArg].timestamp = dateNow
           /\ SameCustomer(cache'[findArg].data, findResult'.customer)
           /\ SameCustomer(findResult'.customer,
                           mapSupabaseCustomerToApp(SelectCustomer(customers, findArg))) ]_vars

\* a hit served exactly 24 h after the entry was stored, the remote row having
\* changed since
C8_Witness ==
  /\ findPc = "idle"
  /\ findResult # NoResult
  /\ findResult.status = "ok" /\ ~findResult.remote
  /\ cache[findArg] # NoEntry
  /\ dateNow - cache[findArg].timestamp = CACHE_DURATION_MS
  /\ SameCustomer(findResult.customer, cache[findArg].data)
  /\ ~SameCustomer(findResult.customer, mapSupabaseCustomerToApp(SelectCustomer(customers, findArg)))

\* C9: a lookup whose remote query answers and finds no row with exactly that
\* installation number fails with NotFound and caches nothing; no lookup
\* returns a Customer for a number that has no record.
C9_NotFound ==
  /\ []((findResult # NoResult /\ findResult.status = "ok")
          => /\ findArg \in CustomerKeys(customers)
             /\ findResult.customer.installationNumber = findArg)
  /\ [][((\E storageOk \in BOOLEAN : findCustomer_query(TRUE, storageOk))
           /\ findArg \notin CustomerKeys(customers))
          => /\ findResult'.status = "NotFound"
             /\ cache' = cache]_vars

C9_Witness ==
  /\ findPc = "idle"
  /\ findResult # NoResult
  /\ findResult.status = "NotFound"
  /\ findArg \notin CustomerKeys(customers)
  /\ customers # <<>>

(***************************************************************************)
(* Properties of bulkUpsertCustomers                                       *)
(***************************************************************************)
\* C10: whatever the chunks' outcomes, the returned success and errorCount sum
\* to the number of input records; an empty input returns 0, 0 and no error
\* without sending any upsert.
C10_CountsSumToN ==
  bulkResult # NoResult =>
    /\ bulkResult.success + bulkResult.errorCount = Len(dbRows)
    /\ Len(dbRows) = 0 =>
         /\ bulkResult = [success |-> 0, errorCount |-> 0, error |-> Null]
         /\ upsertCalls = 0

\* a three-chunk import that returned with both successes and errors
C10_Witness ==
  /\ bulkResult # NoResult
  /\ bulkPc = "idle"
  /\ Len(dbRows) = 2 * CHUNK_SIZE + 1
  /\ upsertCalls = 3
  /\ bulkResult.success = CHUNK_SIZE + 1
  /\ bulkResult.errorCount = CHUNK_SIZE

\* C11: when the upsert of the chunk at index i answers with a permission-class
\* error (code 42501 or a row-level-security message), the call returns at
\* once: the successes counted so far stay, the errors counted so far plus
\* every record from index i on are the error count, and no further upsert is
\* ever sent for that call.
C11_PermissionAbort ==
  /\ [][\A error \in ChunkErrors :
          ((error.code = "42501"
              \/ error.message = "new row violates row-level security policy")
            /\ bulkUpsertCustomers_chunkError(error))
          => /\ bulkPc' = "idle"
             /\ bulkResult' # NoResult
             /\ bulkResult'.success = totalSuccess
             /\ bulkResult'.errorCount = totalErrors + (Len(dbRows) - bulkI)
             /\ bulkResult'.success + totalErrors = bulkI
             /\ upsertCalls' = (bulkI \div CHUNK_SIZE) + 1]_vars
  /\ []((bulkResult # NoResult /\ bulkResult.error = "YETKI HATASI")
          => /\ bulkPc = "idle"
             /\ upsertCalls = (bulkI \div CHUNK_SIZE) + 1
             /\ bulkI + CHUNK_SIZE < Len(dbRows) => upsertCalls * CHUNK_SIZE < Len(dbRows))

\* a three-chunk import stopped by a permission error at its second chunk,
\* the first chunk having succeeded
C11_Witness ==
  /\ bulkResult # NoResult
  /\ bulkResult.error = "YETKI HATASI"
  /\ Len(dbRows) = 2 * CHUNK_SIZE + 1
  /\ upsertCalls = 2
  /\ bulkResult.success = CHUNK_SIZE
  /\ bulkResult.errorCount = CHUNK_SIZE + 1

\* C12: a chunk whose upsert answers with an error or throws adds its records
\* to the error count, which never shrinks during the call; the call never
\* ends raised, and every call that sent an upsert returns a result object
\* whose errorCount is at least the errors counted.
C12_NeverRaises ==
  /\ [][((\E error \in ChunkErrors : bulkUpsertCustomers_chunkError(error))
            \/ (\E applied \in BOOLEAN : bulkUpsertCustomers_chunkThrows(applied)))
          => /\ totalErrors' = totalErrors + Len(ChunkAt(dbRows, bulkI))
             /\ lastError' # Null
             /\ bulkPc' \in {"sleep", "idle"}
             /\ bulkPc' = "idle" =>
                  /\ bulkResult' # NoResult
                  /\ bulkResult'.errorCount >= totalErrors']_vars
  /\ [][(bulkPc # "idle" /\ bulkI' = bulkI) => totalErrors' >= totalErrors]_vars
  /\ [](bulkPc \in {"idle", "upsert", "sleep"})
  /\ []((bulkPc = "idle" /\ dbRows # <<>>)
          => /\ bulkResult # NoResult
             /\ DOMAIN bulkResult = {"success", "errorCount", "error"}
             /\ bulkResult.errorCount >= totalErrors)
  /\ (bulkPc = "upsert") ~> (bulkPc = "idle" /\ bulkResult # NoResult)

\* a two-chunk import that returned after its first chunk answered with an
\* error and its second one threw
C12_Witness ==
  /\ bulkPc = "idle"
  /\ bulkResult # NoResult
  /\ Len(dbRows) = CHUNK_SIZE + 1
  /\ upsertCalls = 2
  /\ bulkResult.success = 0
  /\ bulkResult.errorCount = CHUNK_SIZE + 1
  /\ bulkResult.error = "Failed to fetch"

(***************************************************************************)
(* Properties of getUserActivityStats                                      *)
(***************************************************************************)
\* C13: when the view is unavailable, a call that can read the raw log returns,
\* for every username occurring in the log, exactly one entry, whose queryCount
\* is the number of log rows with that username and whose lastLogin is the
\* formatted maximum created_at among them, and no other entry; a call that
\* cannot read the raw log returns the empty list.
C13_FallbackStats ==
  [][\A logsOk \in BOOLEAN, perm \in Permutations(1..Len(search_logs)) :
       getUserActivityStats([ok |-> FALSE, data |-> <<>>], logsOk, perm)
       => LET rows == statsResult'.rows
              RowsOfUser(u) == {i \in DOMAIN search_logs : search_logs[i].username = u}
              Occurring == {search_logs[i].username : i \in DOMAIN search_logs}
              MaxAt(u) == CHOOSE t \in {search_logs[i].created_at : i \in RowsOfUser(u)} :
                            \A i \in RowsOfUser(u) : search_logs[i].created_at <= t
          IN IF ~logsOk THEN rows = <<>>
             ELSE /\ \A u \in Occurring :
                       /\ Cardinality({i \in DOMAIN rows : rows[i].username = u}) = 1
                       /\ \A i \in DOMAIN rows :
                            rows[i].username = u =>
                              /\ rows[i].queryCount = Cardinality(RowsOfUser(u))
                              /\ rows[i].lastLogin = FormatDate(MaxAt(u))
                  /\ \A i \in DOMAIN rows : rows[i].username \in Occurring]_vars

(***************************************************************************)
(* Properties of the customers table                                       *)
(***************************************************************************)
\* C14: in every state reached by any sequence of imports no two rows of the
\* customers table share an installation number; an upsert that succeeds
\* leaves every existing row in its place, rewrites exactly the rows whose
\* number the chunk carries (with the chunk's last row of that number) and
\* adds one row per number the table did not hold.
C14_UniqueInstallationNumber ==
  /\ [](Cardinality(CustomerKeys(customers)) = Len(customers))
  /\ [][bulkUpsertCustomers_chunkOk =>
          LET chunk == ChunkAt(dbRows, bulkI)
              chunkKeys == CustomerKeys(chunk)
          IN /\ CustomerKeys(customers') = CustomerKeys(customers) \cup chunkKeys
             /\ Len(customers') =
                  Len(customers) + Cardinality(chunkKeys \ CustomerKeys(customers))
             /\ \A i \in DOMAIN customers :
                  /\ customers'[i].installation_number = customers[i].installation_number
                  /\ customers[i].installation_number \notin chunkKeys
                       => customers'[i] = customers[i]
             /\ \A j \in DOMAIN chunk :
                  (\A l \in (j + 1)..Len(chunk) :
                      chunk[l].installation_number # chunk[j].installation_number)
                  => SelectCustomer(customers', chunk[j].installation_number) = chunk[j]]_vars

\* a finished import whose second chunk repeated the installation number of
\* the first row of its first chunk
C14_Witness ==
  /\ bulkPc = "idle"
  /\ bulkResult # NoResult
  /\ Len(dbRows) = CHUNK_SIZE + 1
  /\ dbRows[1].installation_number = dbRows[CHUNK_SIZE + 1].installation_number
  /\ bulkResult.success = CHUNK_SIZE + 1
  /\ Len(customers) = CHUNK_SIZE
  /\ SelectCustomer(customers, dbRows[1].installation_number) = dbRows[CHUNK_SIZE + 1]

\* C20: when the upsert of a chunk answers with an error that is neither code
\* 42501 nor a row-level-security message, the chunk's record count is added
\* to the error total, the error's message becomes the last error, nothing is
\* returned yet and the loop goes on to the next chunk; a call that returns
\* before it has sent an upsert for every chunk returns the permission result,
\* and any other result carries the error total and the last message.
C20_OtherErrorContinues ==
  /\ [][\A error \in ChunkErrors :
          ( /\ error.code # "42501"
            /\ error.message # "new row violates row-level security policy"
            /\ bulkUpsertCustomers_chunkError(error) )
          => /\ totalErrors' = totalErrors + Len(ChunkAt(dbRows, bulkI))
             /\ lastError' = error.message
             /\ totalSuccess' = totalSuccess
             /\ bulkResult' = NoResult
             /\ bulkPc' = "sleep"
             /\ bulkI' = bulkI]_vars
  /\ [][(bulkPc = "sleep" /\ bulkI + CHUNK_SIZE < Len(dbRows))
          => /\ bulkPc' = "upsert"
             /\ bulkI' = bulkI + CHUNK_SIZE
             /\ bulkResult' = NoResult]_vars
  /\ []((bulkResult # NoResult /\ Len(dbRows) > 0)
          => IF upsertCalls * CHUNK_SIZE < Len(dbRows)
               THEN bulkResult.error = "YETKI HATASI"
               ELSE /\ bulkResult.error = "YETKI HATASI"
                         => ~(bulkI + CHUNK_SIZE < Len(dbRows))
                    /\ bulkResult.error # "YETKI HATASI"
                         => /\ bulkResult.errorCount = totalErrors
                            /\ bulkResult.error = lastError
                            /\ bulkResult.success + bulkResult.errorCount = Len(dbRows))

\* a three-chunk import whose second chunk timed out: the third chunk was
\* still sent and stored, and the result counts the second chunk as errors
C20_Witness ==
  /\ bulkResult # NoResult
  /\ Len(dbRows) = 2 * CHUNK_SIZE + 1
  /\ upsertCalls = 3
  /\ bulkResult.error = "canceling statement due to statement timeout"
  /\ bulkResult.errorCount = CHUNK_SIZE
  /\ bulkResult.success = CHUNK_SIZE + 1
  /\ dbRows[2 * CHUNK_SIZE + 1].installation_number \in CustomerKeys(customers)

\* C21: while an upsert of a call is awaited, every upsert the call sent
\* before has been answered and the awaited one carries the next slice of
\* CHUNK_SIZE rows of the input, in input order; the table changes only by the
\* upsert of that slice; an answer ends the awaited upsert, and the next one
\* is sent by a later step only.
C21_SequentialChunks ==
  /\ [](bulkPc = "upsert"
          => /\ bulkI = upsertCalls * CHUNK_SIZE
             /\ bulkI < Len(dbRows))
  /\ [][customers' # customers
          => /\ bulkPc = "upsert"
             /\ customers' =
                  Upsert(customers,
                         SubSeq(dbRows, upsertCalls * CHUNK_SIZE + 1,
                                IF (upsertCalls + 1) * CHUNK_SIZE > Len(dbRows)
                                  THEN Len(dbRows)
                                  ELSE (upsertCalls + 1) * CHUNK_SIZE))]_vars
  /\ [][(upsertCalls' # upsertCalls /\ upsertCalls' # 0)
          => /\ upsertCalls' = upsertCalls + 1
             /\ bulkPc = "upsert"
             /\ bulkPc' \in {"sleep", "idle"}
             /\ bulkI' = bulkI]_vars
  /\ [][(bulkPc # "upsert" /\ bulkPc' = "upsert")
          => /\ upsertCalls' = upsertCalls \/ upsertCalls' = 0
             /\ customers' = customers]_vars

\* the second chunk of a three-chunk import is awaited: the first chunk is
\* stored, no row of the second or third is
C21_Witness ==
  /\ bulkPc = "upsert"
  /\ Len(dbRows) = 2 * CHUNK_SIZE + 1
  /\ bulkI = CHUNK_SIZE
  /\ upsertCalls = 1
  /\ totalSuccess = CHUNK_SIZE
  /\ dbRows[CHUNK_SIZE].installation_number \in CustomerKeys(customers)
  /\ dbRows[CHUNK_SIZE + 1].installation_number \notin CustomerKeys(customers)
  /\ dbRows[2 * CHUNK_SIZE + 1].installation_number \notin CustomerKeys(customers)

\* C22: every step in which the upsert of a chunk is answered appends one
\* report to the observer's log, with processed = the records of all chunks
\* attempted so far, total = N and errorCount = the errors counted so far;
\* while the next upsert is awaited there is one report per answered upsert;
\* processed never decreases from report to report and never exceeds total.
C22_ProgressAfterEachChunk ==
  /\ [][upsertCalls' = upsertCalls + 1
          => progressLog' =
               Append(progressLog,
                      [processed |-> IF upsertCalls' * CHUNK_SIZE > Len(dbRows)
                                       THEN Len(dbRows) ELSE upsertCalls' * CHUNK_SIZE,
                       total |-> Len(dbRows),
                       errorCount |-> totalErrors'])]_vars
  /\ [](bulkPc = "upsert" => Len(progressLog) = upsertCalls)
  /\ [](\A i, j \in DOMAIN progressLog :
          /\ progressLog[i].processed <= progressLog[i].total
          /\ i <= j => progressLog[i].processed <= progressLog[j].processed)

\* C22 as amended: the same, except that the step in which a permission-class
\* error ends the call appends no report (the call returns its result
\* instead), so a returned call has one report per answered upsert, or one
\* less when it was ended by a permission-class error.
C22_ProgressUnlessAborted ==
  /\ [][(upsertCalls' = upsertCalls + 1 /\ bulkPc' # "idle")
          => progressLog' =
               Append(progressLog,
                      [processed |-> IF upsertCalls' * CHUNK_SIZE > Len(dbRows)
                                       THEN Len(dbRows) ELSE upsertCalls' * CHUNK_SIZE,
                       total |-> Len(dbRows),
                       errorCount |-> totalErrors'])]_vars
  /\ [][(upsertCalls' = upsertCalls + 1 /\ bulkPc' = "idle")
          => /\ progressLog' = progressLog
             /\ bulkResult' # NoResult
             /\ bulkResult'.error = "YETKI HATASI"]_vars
  /\ [](bulkPc = "upsert" => Len(progressLog) = upsertCalls)
  /\ [](bulkResult # NoResult
          => Len(progressLog) = IF bulkResult.error = "YETKI HATASI"
                                  THEN upsertCalls - 1 ELSE upsertCalls)
  /\ [](\A i, j \in DOMAIN progressLog :
          /\ progressLog[i].processed <= progressLog[i].total
          /\ i <= j => progressLog[i].processed <= progressLog[j].processed)

\* a three-chunk import whose second chunk failed has returned: three reports,
\* the last with every record processed and the second chunk's errors
C22_Witness ==
  /\ bulkResult # NoResult
  /\ Len(dbRows) = 2 * CHUNK_SIZE + 1
  /\ Len(progressLog) = 3
  /\ progressLog[1] = [processed |-> CHUNK_SIZE, total |-> Len(dbRows), errorCount |-> 0]
  /\ progressLog[2].processed = 2 * CHUNK_SIZE
  /\ progressLog[2].errorCount = CHUNK_SIZE
  /\ progressLog[3] = [processed |-> Len(dbRows), total |-> Len(dbRows),
                       errorCount |-> CHUNK_SIZE]

C16_CsvRoundTrip ==
  [][exportCustomersAsCSV(TRUE) =>
       LET parsed == ParseCsv(csvContent'.text)
       IN /\ Len(parsed) = Len(customers)
          /\ \A i \in DOMAIN customers :
               i <= Len(parsed) =>
                 /\ parsed[i].installationNumber = customers[i].installation_number
                 /\ parsed[i].name = OrEmpty(customers[i].name)
                 /\ parsed[i].phone = OrEmpty(customers[i].phone)
                 /\ parsed[i].address = OrEmpty(customers[i].address)]_vars

(***************************************************************************)
(* Properties of the superuser login                                       *)
(***************************************************************************)
\* C18: a login as admin / admin123 sends no authenticateUser call, reads and
\* binds no device id and leaves the users table alone, and it ends in an
\* authenticated session for 'admin' that is admin and unrestricted (the admin
\* console is shown), whatever device id is supplied, whatever the users table
\* holds and whether or not the remote store answers.
C18_SuperuserLogin ==
  /\ [][\A d \in {"d1", "d2"}, ok \in BOOLEAN :
          handleLogin("admin", "admin123", d, ok)
            => /\ isAuthenticated' /\ isAdmin' /\ isUnrestrictedUser' /\ legalAccepted'
               /\ currentUser' = "admin"
               /\ renderContent' = "Admin"
               /\ users' = users
               /\ authCall' = authCall
               /\ authPc' = authPc
               /\ authResult' = authResult
               /\ firstBind' = firstBind]_vars
  /\ [](currentUser = "admin" => (isAuthenticated /\ isAdmin /\ isUnrestrictedUser))

\* the superuser is logged in on a device the stored user is not bound to,
\* and no authenticateUser call was ever made
C18_Witness ==
  /\ currentUser = "admin"
  /\ isAdmin /\ isUnrestrictedUser
  /\ renderContent = "Admin"
  /\ authCall[AppClient] = NoCall
  /\ authResult[AppClient] = "none"
  /\ users[1].allowed_device_id = "d1"
  /\ firstBind = NoBind

(***************************************************************************)
(* Properties of the lookup screen                                         *)
(***************************************************************************)
\* C17: a lookup that returns a customer (from the cache or from the remote
\* query) issues one logSearchQuery call for {acting username, installation
\* number} and shows its outcome without waiting for the insert; when the
\* insert answers, whether it succeeds, returns an error or throws, at most
\* that one row is appended and the customer and the error shown stay as they
\* were.
C17_LogNeverPropagates ==
  /\ [][\A term \in CacheKeys :
          LET entry == [username |-> currentUser, installation_number |-> term]
              cacheHit == /\ \E t \in SearchTerms, r \in BOOLEAN :
                               TrimTerm(t) = term /\ performSearch_start(t, r)
                          /\ getFromCache(term) # NullCustomer
              remoteHit == \E n \in DOMAIN pendingSearches :
                             /\ pendingSearches[n].term = term
                             /\ SelectCustomer(customers, term) # NoRow
                             /\ \E s, r \in BOOLEAN : performSearch_resume(n, TRUE, s, r)
          IN (cacheHit \/ remoteHit)
               => /\ logInFlight' = Append(logInFlight, entry)
                  /\ search_logs' = search_logs
                  /\ foundCustomer' # NullCustomer
                  /\ loading' = FALSE]_vars
  /\ [][Len(logInFlight') < Len(logInFlight)
          => /\ foundCustomer' = foundCustomer
             /\ searchError' = searchError
             /\ loading' = loading
             /\ recentSearches' = recentSearches
             /\ logInFlight' = Tail(logInFlight)
             /\ \/ search_logs' = search_logs
                \/ /\ Len(search_logs') = Len(search_logs) + 1
                   /\ SubSeq(search_logs', 1, Len(search_logs)) = search_logs
                   /\ search_logs'[Len(search_logs')].username
                        = Head(logInFlight).username
                   /\ search_logs'[Len(search_logs')].installation_number
                        = Head(logInFlight).installation_number]_vars

\* KeyOf(2) was found once, the insert of its log entry failed, and the
\* customer is still shown without an error
C17_Witness ==
  /\ recentSearches = <<KeyOf(2)>>
  /\ foundCustomer # NullCustomer
  /\ foundCustomer.installationNumber = KeyOf(2)
  /\ searchError = ""
  /\ ~loading
  /\ pendingSearches = <<>>
  /\ logInFlight = <<>>
  /\ search_logs = <<>>

\* C19: in every state the recent searches, in memory and in localStorage,
\* hold at most 5 terms and no term twice; a search that finds its customer
\* (and whose write to localStorage is accepted) leaves both lists equal to
\* the term followed by the earlier list without that term, cut to 5, so the
\* list runs from the latest successful search back; a search that fails
\* leaves both lists as they were.
C19_RecentSearches ==
  /\ [](\A list \in {recentSearches, recentsStorage} :
          /\ Len(list) <= MAX_RECENT_SEARCHES
          /\ \A i, j \in DOMAIN list : i # j => list[i] # list[j])
  /\ [][\A term \in CacheKeys :
          LET NotTerm(x) == x # term
              rest == SelectSeq(recentSearches, NotTerm)
              kept == IF Len(rest) > MAX_RECENT_SEARCHES - 1
                        THEN MAX_RECENT_SEARCHES - 1 ELSE Len(rest)
              cacheHit == /\ \E t \in SearchTerms :
                               TrimTerm(t) = term /\ performSearch_start(t, TRUE)
                          /\ getFromCache(term) # NullCustomer
              remoteHit == \E n \in DOMAIN pendingSearches :
                             /\ pendingSearches[n].term = term
                             /\ SelectCustomer(customers, term) # NoRow
                             /\ \E st \in BOOLEAN : performSearch_resume(n, TRUE, st, TRUE)
          IN (cacheHit \/ remoteHit)
               => /\ recentSearches' = <<term>> \o SubSeq(rest, 1, kept)
                  /\ recentsStorage' = recentSearches']_vars
  /\ [][\A n \in DOMAIN pendingSearches :
          ( /\ \E ok, st, r \in BOOLEAN : performSearch_resume(n, ok, st, r)
            /\ searchError' \in {"NotFound", "RemoteError"}
            /\ \/ SelectCustomer(customers, pendingSearches[n].term) = NoRow
               \/ performSearch_resume(n, FALSE, TRUE, TRUE) )
          => /\ recentSearches' = recentSearches
             /\ recentsStorage' = recentsStorage]_vars

====
